---- MODULE Spec2Model ----
(***************************************************************************)
(* ButterflyDB: the paged B+ tree (src/db/btree/mod.rs) and the row store  *)
(* built on it (src/db/storage/mod.rs), modelled as state machines.        *)
(*                                                                         *)
(* Byte strings are abstracted as follows.  A tree key is a record         *)
(* [ord, len]: its rank in the order of Vec<u8> (keys are only compared,   *)
(* and Ord on Vec<u8> is a total order) and its number of bytes.  A tree   *)
(* value is a record [data, len]: the identity of the bytes and their      *)
(* number.  A page is the                                                  *)
(* record [tag, len, complete, node]: byte 0, the little-endian length in  *)
(* bytes 1..4, and the serialized node in bytes 8.., which is complete     *)
(* only when the serialization fitted into PAGE_SIZE - 8 bytes; the bytes  *)
(* of a cut serialization are not modelled (no node decodes from them).    *)
(* Of a file, `dirty` tells whether bytes were written since the last      *)
(* File::sync_all.                                                         *)
(* Serialized sizes follow bincode 1.x defaults: u32 enum tag, u64 lengths *)
(* and u64 integers.                                                       *)
(***************************************************************************)
EXTENDS Integers, Sequences, FiniteSets, TLC

VARIABLES
    files,      \* data directory: table name -> contents of <table>.db
    btrees,     \* Storage.btrees / the open BPlusTree: table name -> pager memory
    tables,     \* Storage.tables: table name -> in-memory rows
    clock,      \* SystemTime::now() in nanoseconds
    shadow,     \* history: key -> value last inserted through the tree API
    last,       \* history: the last call, its arguments, result and pre-state
    calls,      \* the Storage calls in progress on other threads
    catalog,    \* Catalog: the data in memory, the document on disk, the callers
    pool,       \* ConnectionPool and the tasks of the server
    conn        \* one binary connection: the stream and its handler

vars == <<files, btrees, tables, clock, shadow, last, calls, catalog, pool, conn>>

\* the value of a variable in a specification that does not use it
Idle == "idle"

\* the components a specification of the tree or the row store leaves alone
rest == <<calls, catalog, pool, conn>>

OthersIdle == calls = Idle /\ catalog = Idle /\ pool = Idle /\ conn = Idle

\* the row store, for the specifications that leave it alone
store == <<files, btrees, tables, clock, shadow>>

StoreIdle ==
    files = Idle /\ btrees = Idle /\ tables = Idle /\ clock = Idle /\ shadow = Idle

-----------------------------------------------------------------------------
(* Program constants *)

PAGE_SIZE == 4096
BTREE_ORDER == 32
HEADER_SIZE == PAGE_SIZE
MAX_CACHE_PAGES == 1024

\* PageType discriminants (repr(u8))
PT_FREE == 0
PT_INTERNAL == 1
PT_LEAF == 2
PT_OVERFLOW == 3

(* Bounds of the model *)

\* byte length of a tree key ("key_0050")
KEY_LEN == 8
\* byte length of the values the tree API is driven with ("value_50")
VALUE_LEN == 8
\* number of distinct value contents
MaxData == 2
\* the pre-existing file of the tree specification holds the keys 2, 4, .., 2*PrefillCount
PrefillCount == 30
\* the tree API is driven with the keys PrefillCount-KeySpread .. PrefillCount+KeySpread
KeySpread == 1
\* process stops are injected while the file has fewer than MaxPages pages
MaxPages == 4

\* rows hold the columns "id" and "v" with Integer values 1..MaxCell
MaxCell == 2
\* TREE_TABLE is driven up to MaxRows rows in memory, another table up to
\* OtherRows
MaxRows == 3
OtherRows == 2
\* the clock is read while it shows at most MaxClock
MaxClock == 7
\* the connections that call into the storage at the same time
NumCallers == 2
\* the tasks that ask the pool for a connection
NumClients == 3
\* the largest max_connections of a pool
MaxPermits == 2
\* the connections the servers are offered at a time
MaxTasks == 3
\* the frames a client sends on one connection
MaxFrames == 3
\* the rows the executor inserts in all
MaxInserts == 3
\* the keys a run of ascending inserts adds to the tree
MaxAppend == 18
\* the entries of a batch
MaxBatch == 2
\* the calls of a run of the pager after its start
MaxCalls == 3

Tables == {"t1", "t2"}
TREE_TABLE == "t1"

-----------------------------------------------------------------------------
(* FileHeader, BPlusNode, DiskPage *)

DefaultHeader == [magic |-> "BFLY", total_pages |-> 1, root_page |-> 0]

new_leaf == [kind |-> "Leaf", entries |-> <<>>, right_child |-> 0,
             next_leaf |-> 0, prev_leaf |-> 0]

new_internal == [kind |-> "Internal", entries |-> <<>>, right_child |-> 0,
                 next_leaf |-> 0, prev_leaf |-> 0]

is_leaf(node) == node.kind = "Leaf"

is_full(node) == Len(node.entries) >= BTREE_ORDER - 1

\* the bytes of the entries of a node: a key is a u64 length and its bytes; a
\* leaf entry adds the value (u64 length, bytes), an internal entry a u64 page
RECURSIVE EntriesLen(_, _)
EntriesLen(entries, leaf) ==
    IF entries = <<>> THEN 0
    ELSE 8 + Head(entries).key.len
         + (IF leaf THEN 8 + Head(entries).value.len ELSE 8)
         + EntriesLen(Tail(entries), leaf)

\* bincode::serialize(node).len(): u32 variant, u64 entry count, the entries,
\* and right_child (Internal) or next_leaf and prev_leaf (Leaf)
serialize_len(node) ==
    IF is_leaf(node)
    THEN 4 + 8 + EntriesLen(node.entries, TRUE) + 8 + 8
    ELSE 4 + 8 + EntriesLen(node.entries, FALSE) + 8

Min(a, b) == IF a < b THEN a ELSE b

\* DiskPage::new: a zeroed page
DiskPage_new(page_id, page_type) ==
    [page_id |-> page_id, page_type |-> page_type,
     data |-> [tag |-> 0, len |-> 0, complete |-> TRUE, node |-> new_leaf]]

\* DiskPage::from_node: the serialization is cut at PAGE_SIZE - 8 bytes
from_node(page_id, node) ==
    LET page_type == IF is_leaf(node) THEN PT_LEAF ELSE PT_INTERNAL
        slen == serialize_len(node)
        len == Min(slen, PAGE_SIZE - 8)
    IN [page_id |-> page_id, page_type |-> page_type,
        data |-> [tag |-> page_type, len |-> len,
                  complete |-> (slen <= PAGE_SIZE - 8),
                  node |-> IF slen <= PAGE_SIZE - 8 THEN node ELSE new_leaf]]

\* DiskPage::to_node: None for a zero length, and for bytes bincode cannot
\* decode (a cut serialization ends before the announced entries)
to_node(page) ==
    IF page.data.len = 0 \/ 8 + page.data.len > PAGE_SIZE \/ ~page.data.complete
    THEN [some |-> FALSE, node |-> new_leaf]
    ELSE [some |-> TRUE, node |-> page.data.node]

\* page.to_node().unwrap_or_else(BPlusNode::new_leaf)
to_node_or_new_leaf(page) == to_node(page).node

-----------------------------------------------------------------------------
(* Pager.  A pager value pg is [header, cache, file, err, ret, log]: the    *)
(* in-memory header, the LRU cache (least recently used first), the file,  *)
(* whether an I/O error has been returned (every later step of the call is *)
(* then skipped, as `?` does), the value returned by the last step, and    *)
(* the writes issued to the file by the current call, in order.            *)

NoFile == [exists |-> FALSE, hdr |-> DefaultHeader, pages |-> <<>>, dirty |-> FALSE]

\* match data[0] in read_page
PageTypeOfTag(b) ==
    CASE b = 1 -> PT_INTERNAL
      [] b = 2 -> PT_LEAF
      [] b = 3 -> PT_OVERFLOW
      [] OTHER -> PT_FREE

CacheContains(cache, id) == \E i \in 1..Len(cache) : cache[i].page_id = id

CacheEntry(cache, id) ==
    cache[CHOOSE i \in 1..Len(cache) : cache[i].page_id = id]

\* LruCache::pop: the cache holds a page at most once
CachePop(cache, id) ==
    IF CacheContains(cache, id)
    THEN SubSeq(cache, 1, (CHOOSE i \in 1..Len(cache) : cache[i].page_id = id) - 1)
            \o SubSeq(cache, (CHOOSE i \in 1..Len(cache) : cache[i].page_id = id) + 1,
                      Len(cache))
    ELSE cache

\* LruCache::put: replace and promote, or insert evicting the least recently used
CachePut(cache, page) ==
    IF CacheContains(cache, page.page_id)
    THEN Append(CachePop(cache, page.page_id), page)
    ELSE IF Len(cache) >= MAX_CACHE_PAGES
         THEN Append(Tail(cache), page)
         ELSE Append(cache, page)

\* LruCache::get: promote
CacheGet(cache, id) == Append(CachePop(cache, id), CacheEntry(cache, id))

\* the file after page `id` has been written at its offset (a write past the
\* end leaves a hole of zero bytes)
RECURSIVE PadTo(_, _)
PadTo(pages, n) ==
    IF Len(pages) >= n THEN pages
    ELSE PadTo(Append(pages, DiskPage_new(Len(pages) + 1, PT_FREE).data), n)

FileWritePage(file, id, data) ==
    [file EXCEPT !.pages = [PadTo(file.pages, id) EXCEPT ![id] = data],
                 !.dirty = TRUE]

FileWriteHeader(file, header) ==
    [file EXCEPT !.hdr = header, !.dirty = TRUE]

\* Pager::write_header
write_header(pg) ==
    IF pg.err THEN pg
    ELSE [pg EXCEPT !.file = FileWriteHeader(pg.file, pg.header),
                    !.log = Append(@, [page_id |-> 0, header |-> pg.header])]

\* a faulty write_page, which writes the file and leaves the cache as it is
write_page_past_cache(pg, page) ==
    IF pg.err THEN pg
    ELSE IF page.page_id < 1 THEN [pg EXCEPT !.err = TRUE]
    ELSE [pg EXCEPT !.file = FileWritePage(pg.file, page.page_id, page.data),
                    !.log = Append(@, [page_id |-> page.page_id, data |-> page.data])]

\* Pager::write_page
write_page(pg, page) ==
    IF pg.err THEN pg
    ELSE IF page.page_id < 1 THEN [pg EXCEPT !.err = TRUE]
    ELSE [pg EXCEPT !.file = FileWritePage(pg.file, page.page_id, page.data),
                    !.cache = CachePut(pg.cache, page),
                    !.log = Append(@, [page_id |-> page.page_id, data |-> page.data])]

\* Pager::read_page: ret is the cached page
read_page(pg, page_id) ==
    IF pg.err THEN pg
    ELSE IF CacheContains(pg.cache, page_id)
    THEN [pg EXCEPT !.cache = CacheGet(pg.cache, page_id),
                    !.ret = CacheEntry(pg.cache, page_id)]
    ELSE IF page_id < 1 \/ page_id > Len(pg.file.pages)
    THEN [pg EXCEPT !.err = TRUE]     \* read_exact past the end of the file
    ELSE LET data == pg.file.pages[page_id]
             page == [page_id |-> page_id, page_type |-> PageTypeOfTag(data.tag),
                      data |-> data]
         IN [pg EXCEPT !.cache = CachePut(pg.cache, page), !.ret = page]

\* Pager::allocate_page: ret is the new page id
allocate_page(pg) ==
    IF pg.err THEN pg
    ELSE LET page_id == pg.header.total_pages
             h == write_header([pg EXCEPT !.header.total_pages = @ + 1])
             w == write_page(h, DiskPage_new(page_id, PT_FREE))
         IN [w EXCEPT !.ret = page_id]

\* Pager::sync: write_header, then File::sync_all, which the log notes as one
\* more entry of the header, marked sync_all
sync(pg) ==
    IF pg.err THEN pg
    ELSE LET h == write_header(pg)
         IN [h EXCEPT !.file.dirty = FALSE,
                      !.log = Append(@, [page_id |-> 0, header |-> h.header,
                                         sync_all |-> TRUE])]

root_page(pg) == pg.header.root_page

\* Pager::set_root_page
set_root_page(pg, page_id) ==
    IF pg.err THEN pg
    ELSE write_header([pg EXCEPT !.header.root_page = page_id])

\* Pager::invalidate
invalidate(pg, page_id) ==
    IF pg.err THEN pg ELSE [pg EXCEPT !.cache = CachePop(pg.cache, page_id)]

\* Pager::open: the header of an existing file is taken as it is read (any
\* bytes decode to a FileHeader); a new file gets the default header, synced
Pager_open(file) ==
    IF file.exists
    THEN [header |-> file.hdr, cache |-> <<>>, file |-> file,
          err |-> FALSE, ret |-> 0, log |-> <<>>]
    ELSE [header |-> DefaultHeader, cache |-> <<>>,
          file |-> [exists |-> TRUE, hdr |-> DefaultHeader, pages |-> <<>>, dirty |-> FALSE],
          err |-> FALSE, ret |-> 0,
          log |-> <<[page_id |-> 0, header |-> DefaultHeader]>>]

-----------------------------------------------------------------------------
(* BPlusTree *)

\* BPlusTree::open: Pager::open, and a root leaf when the header has none
BPlusTree_open(file) ==
    LET pager == Pager_open(file)
    IN IF root_page(pager) = 0
       THEN LET a == allocate_page(pager)
                root_id == a.ret
                w == write_page(a, from_node(root_id, new_leaf))
            IN set_root_page(w, root_id)
       ELSE pager

\* Vec::insert(pos, x)
InsertAt(s, pos, x) == SubSeq(s, 1, pos - 1) \o <<x>> \o SubSeq(s, pos, Len(s))

\* entries.iter().position(|e| e.key > key).unwrap_or(entries.len()), 1-based
InsertionPoint(entries, key) ==
    IF \E i \in 1..Len(entries) : entries[i].key.ord > key.ord
    THEN CHOOSE i \in 1..Len(entries) :
            /\ entries[i].key.ord > key.ord
            /\ \A j \in 1..(i - 1) : ~(entries[j].key.ord > key.ord)
    ELSE Len(entries) + 1

\* the leaf arm of insert_into_node
LeafUpsert(entries, key, value) ==
    LET pos == InsertionPoint(entries, key)
    IN IF pos > 1 /\ entries[pos - 1].key = key
       THEN [entries EXCEPT ![pos - 1].value = value]
       ELSE InsertAt(entries, pos, [key |-> key, value |-> value])

\* entries.iter().find(|e| key <= e.key): the child to descend into
RouteGoesLeft(key, entry_key) == key.ord <= entry_key.ord

ChildFor(node, key) ==
    IF \E i \in 1..Len(node.entries) : RouteGoesLeft(key, node.entries[i].key)
    THEN node.entries[CHOOSE i \in 1..Len(node.entries) :
            /\ RouteGoesLeft(key, node.entries[i].key)
            /\ \A j \in 1..(i - 1) : ~RouteGoesLeft(key, node.entries[j].key)].child_page
    ELSE node.right_child

\* BPlusTree::insert_into_node
RECURSIVE insert_into_node(_, _, _, _)
insert_into_node(pg, page_id, key, value) ==
    LET r == read_page(invalidate(pg, page_id), page_id)
        node == to_node_or_new_leaf(r.ret)
    IN IF r.err THEN r
       ELSE IF is_leaf(node)
       THEN write_page(r, from_node(page_id,
                [node EXCEPT !.entries = LeafUpsert(node.entries, key, value)]))
       ELSE insert_into_node(r, ChildFor(node, key), key, value)

\* BPlusTree::split_node: the node keeps the left part; (median key, right node)
split_node(node) ==
    LET mid == Len(node.entries) \div 2
        n == Len(node.entries)
    IN IF is_leaf(node)
       THEN [median_key |-> node.entries[mid + 1].key,
             left |-> [node EXCEPT !.entries = SubSeq(node.entries, 1, mid)],
             right |-> [kind |-> "Leaf", entries |-> SubSeq(node.entries, mid + 1, n),
                        right_child |-> 0, next_leaf |-> node.next_leaf,
                        prev_leaf |-> 0]]
       ELSE [median_key |-> node.entries[mid + 1].key,
             left |-> [node EXCEPT !.entries = SubSeq(node.entries, 1, mid),
                                   !.right_child = node.entries[mid + 1].child_page],
             right |-> [kind |-> "Internal", entries |-> SubSeq(node.entries, mid + 2, n),
                        right_child |-> node.right_child, next_leaf |-> 0,
                        prev_leaf |-> 0]]

\* BPlusTree::insert (no sync)
Tree_insert(pg, key, value) ==
    LET root_id == root_page(pg)
        r == read_page(pg, root_id)
        root == to_node_or_new_leaf(r.ret)
    IN IF r.err THEN r
       ELSE IF is_full(root)
       THEN LET a1 == allocate_page(r)
                new_root_id == a1.ret
                a2 == allocate_page(a1)
                new_child_id == a2.ret
                sp == split_node(root)
                w1 == write_page(a2, from_node(root_id, sp.left))
                w2 == write_page(w1, from_node(new_child_id, sp.right))
                new_root == [kind |-> "Internal",
                             entries |-> <<[key |-> sp.median_key, child_page |-> root_id]>>,
                             right_child |-> new_child_id,
                             next_leaf |-> 0, prev_leaf |-> 0]
                w3 == write_page(w2, from_node(new_root_id, new_root))
                w4 == set_root_page(w3, new_root_id)
            IN IF key.ord <= sp.median_key.ord
               THEN insert_into_node(w4, root_id, key, value)
               ELSE insert_into_node(w4, new_child_id, key, value)
       ELSE insert_into_node(r, root_id, key, value)

\* the loop of batch_insert from entry i on: the root is read, and a full
\* root sends the entry through insert
RECURSIVE BatchEntries(_, _, _)
BatchEntries(pg, entries, i) ==
    IF pg.err \/ i > Len(entries) THEN pg
    ELSE LET r == read_page(pg, root_page(pg))
         IN BatchEntries(
                IF r.err THEN r
                ELSE IF is_full(to_node_or_new_leaf(r.ret))
                THEN Tree_insert(r, entries[i].key, entries[i].value)
                ELSE insert_into_node(r, root_page(pg), entries[i].key, entries[i].value),
                entries, i + 1)

\* a faulty batch_insert, which syncs before the entries are applied
batch_insert_sync_first(pg, entries) ==
    LET b == BatchEntries(sync(pg), entries, 1)
    IN IF b.err THEN b ELSE [b EXCEPT !.ret = Len(entries)]

\* BPlusTree::batch_insert: ret is the count
batch_insert(pg, entries) ==
    LET b == sync(BatchEntries(pg, entries, 1))
    IN IF b.err THEN b ELSE [b EXCEPT !.ret = Len(entries)]

\* BPlusTree::search_node: ret is [some, value]
RECURSIVE search_node(_, _, _)
search_node(pg, page_id, key) ==
    LET r == read_page(pg, page_id)
        n == to_node(r.ret)
    IN IF r.err THEN r
       ELSE IF ~n.some THEN [r EXCEPT !.ret = [some |-> FALSE, value |-> [data |-> 0, len |-> 0]]]
       ELSE IF is_leaf(n.node)
       THEN IF \E i \in 1..Len(n.node.entries) : n.node.entries[i].key = key
            THEN [r EXCEPT !.ret = [some |-> TRUE,
                    value |-> n.node.entries[CHOOSE i \in 1..Len(n.node.entries) :
                        /\ n.node.entries[i].key = key
                        /\ \A j \in 1..(i - 1) : n.node.entries[j].key # key].value]]
            ELSE [r EXCEPT !.ret = [some |-> FALSE, value |-> [data |-> 0, len |-> 0]]]
       ELSE search_node(r, ChildFor(n.node, key), key)

\* BPlusTree::get
Tree_get(pg, key) == search_node(pg, root_page(pg), key)

\* BPlusTree::scan_node: ret is acc followed by the entries visited, in order
RECURSIVE scan_node(_, _, _)
RECURSIVE scan_children(_, _, _, _)
scan_node(pg, page_id, acc) ==
    LET r == read_page(pg, page_id)
        n == to_node(r.ret)
    IN IF r.err THEN r
       ELSE IF ~n.some THEN [r EXCEPT !.ret = acc]
       ELSE IF is_leaf(n.node) THEN [r EXCEPT !.ret = acc \o n.node.entries]
       ELSE LET c == scan_children(r, n.node.entries, 1, acc)
            IN IF c.err THEN c ELSE scan_node(c, n.node.right_child, c.ret)

scan_children(pg, entries, i, acc) ==
    IF i > Len(entries) THEN [pg EXCEPT !.ret = acc]
    ELSE LET c == scan_node(pg, entries[i].child_page, acc)
         IN IF c.err THEN c ELSE scan_children(c, entries, i + 1, c.ret)

\* BPlusTree::scan: ret is the sequence of (key, value) handed to the callback
Tree_scan(pg) == scan_node(pg, root_page(pg), <<>>)

\* BPlusTree::count
Tree_count(pg) ==
    LET s == Tree_scan(pg)
    IN IF s.err THEN s ELSE [s EXCEPT !.ret = Len(s.ret)]

\* BPlusTree::delete_from_node: ret is whether an entry was removed
RECURSIVE delete_from_node(_, _, _)
delete_from_node(pg, page_id, key) ==
    LET r == read_page(invalidate(pg, page_id), page_id)
        n == to_node(r.ret)
    IN IF r.err THEN r
       ELSE IF ~n.some THEN [r EXCEPT !.ret = FALSE]
       ELSE IF is_leaf(n.node)
       THEN LET kept == SelectSeq(n.node.entries, LAMBDA e : e.key # key)
                deleted == Len(kept) < Len(n.node.entries)
            IN IF deleted
               THEN [write_page(r, from_node(page_id, [n.node EXCEPT !.entries = kept]))
                        EXCEPT !.ret = TRUE]
               ELSE [r EXCEPT !.ret = FALSE]
       ELSE delete_from_node(r, ChildFor(n.node, key), key)

\* BPlusTree::delete: delete_from_node, then sync
Tree_delete(pg, key) ==
    LET d == delete_from_node(pg, root_page(pg), key)
        s == sync(d)
    IN IF s.err THEN s ELSE [s EXCEPT !.ret = d.ret]

\* BPlusTree::sync
Tree_sync(pg) == sync(pg)

-----------------------------------------------------------------------------
(* History helpers *)

MapPut(f, k, v) == [x \in (DOMAIN f) \cup {k} |-> IF x = k THEN v ELSE f[x]]

MapDel(f, k) == [x \in (DOMAIN f) \ {k} |-> f[x]]

EmptyMap == [x \in {} |-> 0]

-----------------------------------------------------------------------------
(* The tree API driven directly: one BPlusTree on <TREE_TABLE>.db *)

Closed == [open |-> FALSE, header |-> DefaultHeader, cache |-> <<>>]

\* the pager value of the tree registered for table t
Pg(t) == [header |-> btrees[t].header, cache |-> btrees[t].cache, file |-> files[t],
          err |-> FALSE, ret |-> 0, log |-> <<>>]

\* what stays in memory of a pager value
Mem(pg) == [open |-> TRUE, header |-> pg.header, cache |-> pg.cache]

\* a key of the tree runs: "key_NNNN"
TreeKey(n) == [ord |-> n, len |-> KEY_LEN]

TreeKeys == {TreeKey(n) : n \in (PrefillCount - KeySpread)..(PrefillCount + KeySpread)}

TreeValues == {[data |-> d, len |-> VALUE_LEN] : d \in 1..MaxData}

PrefillValue == [data |-> 1, len |-> VALUE_LEN]

\* the tree after insert(2, v); insert(4, v); ..; insert(2n, v) on a new file
RECURSIVE PrefillFrom(_, _, _)
PrefillFrom(pg, i, n) ==
    IF pg.err \/ i > n THEN pg
    ELSE PrefillFrom(Tree_insert(pg, TreeKey(2 * i), PrefillValue), i + 1, n)

Prefilled(n) == PrefillFrom(BPlusTree_open(NoFile), 1, n)

\* Init of the tree specification: a new file, or a file written and synced by
\* an earlier run, opened with BPlusTree::open
TreeInit ==
    \E n \in {0, PrefillCount} :
        LET pg == BPlusTree_open(Tree_sync(Prefilled(n)).file)
        IN /\ files = [t \in Tables |-> IF t = TREE_TABLE THEN pg.file ELSE NoFile]
           /\ btrees = [t \in Tables |-> IF t = TREE_TABLE THEN Mem(pg) ELSE Closed]
           /\ tables = [t \in Tables |-> [present |-> FALSE, rows |-> <<>>]]
           /\ clock = 0
           /\ shadow = [k \in {TreeKey(2 * i) : i \in 1..n} |-> PrefillValue]
           /\ last = [op |-> "open"]
           /\ OthersIdle

\* the state after a tree call that ended with pager value r
TreeStep(r) ==
    /\ files' = [files EXCEPT ![TREE_TABLE] = r.file]
    /\ btrees' = [btrees EXCEPT ![TREE_TABLE] = Mem(r)]
    /\ UNCHANGED <<tables, clock, rest>>

TreeInsert(k, v) ==
    LET r == Tree_insert(Pg(TREE_TABLE), k, v)
    IN /\ btrees[TREE_TABLE].open
       /\ TreeStep(r)
       /\ shadow' = IF r.err THEN shadow ELSE MapPut(shadow, k, v)
       /\ last' = [op |-> "insert", ok |-> ~r.err]

TreeGet(k) ==
    LET r == Tree_get(Pg(TREE_TABLE), k)
    IN /\ btrees[TREE_TABLE].open
       /\ TreeStep(r)
       /\ UNCHANGED shadow
       /\ last' = [op |-> "get", ok |-> ~r.err]

TreeCount ==
    LET r == Tree_count(Pg(TREE_TABLE))
    IN /\ btrees[TREE_TABLE].open
       /\ TreeStep(r)
       /\ UNCHANGED shadow
       /\ last' = [op |-> "count", ok |-> ~r.err]

TreeDelete(k) ==
    LET r == Tree_delete(Pg(TREE_TABLE), k)
    IN /\ btrees[TREE_TABLE].open
       /\ TreeStep(r)
       /\ shadow' = IF r.err THEN shadow ELSE MapDel(shadow, k)
       /\ last' = [op |-> "delete", key |-> k, ok |-> ~r.err,
                   ret |-> r.ret, was_in |-> k \in DOMAIN shadow,
                   scan_before |-> Tree_scan(Pg(TREE_TABLE)).ret,
                   count_before |-> Tree_count(Pg(TREE_TABLE)).ret]

TreeSync ==
    LET r == Tree_sync(Pg(TREE_TABLE))
    IN /\ btrees[TREE_TABLE].open
       /\ TreeStep(r)
       /\ UNCHANGED shadow
       /\ last' = [op |-> "sync", ok |-> ~r.err]

\* the keys get returns with the value last inserted
Found(pg) == {k \in DOMAIN shadow :
                LET g == Tree_get(pg, k)
                IN ~g.err /\ g.ret.some /\ g.ret.value = shadow[k]}

\* the tree is dropped and the same file opened again
TreeReopen ==
    LET r == BPlusTree_open(files[TREE_TABLE])
    IN /\ btrees[TREE_TABLE].open
       /\ TreeStep(r)
       /\ UNCHANGED shadow
       /\ last' = [op |-> "reopen", ok |-> ~r.err,
                   synced |-> ~files[TREE_TABLE].dirty,
                   count_before |-> Tree_count(Pg(TREE_TABLE)).ret]

\* the file after the first n writes of a log
RECURSIVE ApplyLog(_, _, _)
ApplyLog(file, log, n) ==
    IF n = 0 THEN file
    ELSE LET w == log[n]
             f == ApplyLog(file, log, n - 1)
         IN IF w.page_id = 0 THEN FileWriteHeader(f, w.header)
            ELSE FileWritePage(f, w.page_id, w.data)

\* the process stops after the first n writes of insert(k, v), n less than the
\* number of writes of the call, and the file is opened again
TreeCrashInInsert(k, v) ==
    LET r == Tree_insert(Pg(TREE_TABLE), k, v)
    IN /\ btrees[TREE_TABLE].open
       /\ btrees[TREE_TABLE].header.total_pages < MaxPages
       /\ ~r.err
       /\ \E n \in 1..(Len(r.log) - 1) :
            TreeStep(BPlusTree_open(ApplyLog(files[TREE_TABLE], r.log, n)))
       /\ last' = [op |-> "crash", key |-> k,
                   synced |-> ~files[TREE_TABLE].dirty,
                   found_before |-> Found(Pg(TREE_TABLE))]
       /\ UNCHANGED shadow

TreeNext ==
    \/ \E k \in TreeKeys, v \in TreeValues : TreeInsert(k, v)
    \/ \E k \in TreeKeys : TreeGet(k)
    \/ TreeCount
    \/ \E k \in TreeKeys : TreeDelete(k)
    \/ TreeSync
    \/ TreeReopen

SpecTree == TreeInit /\ [][TreeNext]_vars

\* the write path under process stops: inserts, syncs and stops inside an insert
CrashNext ==
    \/ \E k \in TreeKeys, v \in TreeValues : TreeInsert(k, v)
    \/ TreeSync
    \/ \E k \in TreeKeys, v \in TreeValues : TreeCrashInInsert(k, v)

SpecCrash == TreeInit /\ [][CrashNext]_vars

\* inserts only, with reads, syncs and reopens: the histories "any sequence of
\* inserts" speaks of (shadow is then exactly the keys inserted so far)
InsertsNext ==
    \/ \E k \in TreeKeys, v \in TreeValues : TreeInsert(k, v)
    \/ \E k \in TreeKeys : TreeGet(k)
    \/ TreeCount
    \/ TreeSync
    \/ TreeReopen

SpecInserts == TreeInit /\ [][InsertsNext]_vars

-----------------------------------------------------------------------------
(* Rows, predicates and TableData.  A Row (HashMap<String, Value>) is a     *)
(* function from the columns it holds to Integer values; a predicate is    *)
(* "every row" or "the row holds `val` in column `col`"                     *)

Columns == {"id", "v"}

CellValues == 1..MaxCell

\* the rows the engine is driven with: rows are inserted with their id
InputRows == [{"id"} -> CellValues]

\* the updates maps: they set v, a column the row may or may not hold yet
UpdateMaps == [{"v"} -> CellValues]

Preds == {[kind |-> "all", col |-> "id", val |-> 0]}
            \cup {[kind |-> "eq", col |-> c, val |-> x] : c \in Columns, x \in CellValues}

\* predicate(row); a closure over a WHERE clause is given by the rows it
\* holds on
EvalPred(P, row) ==
    \/ P.kind = "all"
    \/ P.kind = "eq" /\ P.col \in DOMAIN row /\ row[P.col] = P.val
    \/ P.kind = "where" /\ row \in P.hits

\* a faulty retain, which keeps the rows the predicate holds on
RetainMatching(rows, P) == SelectSeq(rows, LAMBDA row : EvalPred(P, row))

\* rows.retain(|row| !predicate(row))
Retain(rows, P) == SelectSeq(rows, LAMBDA row : ~EvalPred(P, row))

\* for (col, val) in updates { row.insert(col, val) }
Overlay(row, updates) ==
    [c \in (DOMAIN row) \cup (DOMAIN updates) |->
        IF c \in DOMAIN updates THEN updates[c] ELSE row[c]]

\* a faulty update, which overlays the updates on every row
TableData_update_every(rows, updates, P) ==
    [rows |-> [i \in 1..Len(rows) |-> Overlay(rows[i], updates)],
     count |-> Cardinality({i \in 1..Len(rows) : EvalPred(P, rows[i])})]

\* TableData::update: (rows after, count)
TableData_update(rows, updates, P) ==
    [rows |-> [i \in 1..Len(rows) |->
                    IF EvalPred(P, rows[i]) THEN Overlay(rows[i], updates) ELSE rows[i]],
     count |-> Cardinality({i \in 1..Len(rows) : EvalPred(P, rows[i])})]

\* TableData::select_columns
Project(row, columns) ==
    IF columns = {} \/ "*" \in columns THEN row
    ELSE [c \in (DOMAIN row) \cap columns |-> row[c]]

TableData_select_columns(rows, columns, P) ==
    LET hit == SelectSeq(rows, LAMBDA row : EvalPred(P, row))
    IN [i \in 1..Len(hit) |-> Project(hit[i], columns)]

ColLen(c) == IF c = "id" THEN 2 ELSE 1

RECURSIVE SumColLen(_)
SumColLen(cols) ==
    IF cols = {} THEN 0
    ELSE LET c == CHOOSE x \in cols : TRUE
         IN 8 + ColLen(c) + 4 + 8 + SumColLen(cols \ {c})

\* bincode::serialize(&SerializableRow::from(row)): the bytes stand for the row;
\* u64 count, and per column the name (u64 length, bytes) and Value::Integer
\* (u32 variant, i64)
SerializeRow(row) == [data |-> row, len |-> 8 + SumColLen(DOMAIN row)]

\* bincode::deserialize::<SerializableRow>(value), then Row::from
DeserializeRow(value) == value.data

-----------------------------------------------------------------------------
(* Storage.  A storage value st is [files, btrees, tables, clock, err, ret]: *)
(* the data directory, the registered trees, the in-memory tables, the      *)
(* clock, whether an Err has been returned (later steps are skipped), and   *)
(* the value returned.                                                      *)

NoTable == [present |-> FALSE, rows |-> <<>>]

St == [files |-> files, btrees |-> btrees, tables |-> tables, clock |-> clock,
       err |-> FALSE, ret |-> 0]

PgOf(st, t) == [header |-> st.btrees[t].header, cache |-> st.btrees[t].cache,
                file |-> st.files[t], err |-> FALSE, ret |-> 0, log |-> <<>>]

\* the storage value after a call on the tree of t ended with pager value r;
\* a failed SharedBPlusTree::open registers no tree
WithTree(st, t, r) ==
    IF r.err /\ ~st.btrees[t].open
    THEN [st EXCEPT !.files[t] = r.file, !.err = TRUE]
    ELSE [st EXCEPT !.files[t] = r.file, !.btrees[t] = Mem(r), !.err = r.err]

\* Ok(value) when no Err has been returned
WithRet(st, value) == IF st.err THEN st ELSE [st EXCEPT !.ret = value]

\* Storage::get_btree: the registered tree, opened (the file created) when
\* none is registered
get_btree(st, t) ==
    IF st.err THEN st
    ELSE IF ~st.btrees[t].open
    THEN WithTree(st, t, BPlusTree_open(st.files[t]))
    ELSE st

\* Storage::get_or_create_table
get_or_create_table(st, t) ==
    IF st.err THEN st
    ELSE get_btree(
            IF ~st.tables[t].present
            THEN [st EXCEPT !.tables[t] = [present |-> TRUE, rows |-> <<>>]]
            ELSE st, t)

\* Storage::generate_row_key: "<table>_<nanos>", 19 digits of nanoseconds
generate_row_key(st, t) == [ord |-> st.clock, len |-> 2 + 1 + 19]

\* SharedBPlusTree::insert on the tree of t
SharedTree_insert(st, t, key, value) ==
    IF st.err THEN st
    ELSE WithTree(st, t, Tree_insert(PgOf(st, t), key, value))

\* let key = generate_row_key(..); ..; tree.insert(key, value)?  The clock
\* moves on by `tick` nanoseconds before it is read the next time
PersistRow(st, t, row, tick) ==
    IF st.err THEN st
    ELSE LET w == SharedTree_insert(st, t, generate_row_key(st, t), SerializeRow(row))
         IN [w EXCEPT !.clock = @ + tick]

\* for row in rows { .. tree.insert(key, value)?; }
RECURSIVE PersistRows(_, _, _, _, _)
PersistRows(st, t, rows, ticks, i) ==
    IF st.err \/ i > Len(rows) THEN st
    ELSE PersistRows(PersistRow(st, t, rows[i], ticks[i]), t, rows, ticks, i + 1)

\* tables.get_mut(table_name).ok_or(..)?; table.insert(row.clone())
TableData_insert(st, t, row) ==
    IF st.err THEN st
    ELSE IF ~st.tables[t].present THEN [st EXCEPT !.err = TRUE]
    ELSE [st EXCEPT !.tables[t].rows = Append(@, row)]

\* Storage::insert
Storage_insert(st, t, row, tick) ==
    WithRet(PersistRow(get_btree(TableData_insert(get_or_create_table(st, t), t, row), t),
                       t, row, tick),
            1)

\* Storage::select: ret is the rows returned
Storage_select(st, t, columns, P) ==
    IF ~st.tables[t].present THEN [st EXCEPT !.err = TRUE]
    ELSE [st EXCEPT !.ret = TableData_select_columns(st.tables[t].rows, columns, P)]

\* Storage::delete: the rows are retained in memory and, when some row went,
\* every remaining row is inserted into the tree again under a new key
Storage_delete(st, t, P, ticks) ==
    IF ~st.tables[t].present THEN [st EXCEPT !.err = TRUE]
    ELSE LET kept == Retain(st.tables[t].rows, P)
             deleted == Len(st.tables[t].rows) - Len(kept)
             m == [st EXCEPT !.tables[t].rows = kept]
         IN IF deleted > 0
            THEN WithRet(PersistRows(get_btree(m, t), t, kept, ticks, 1), deleted)
            ELSE [m EXCEPT !.ret = deleted]

\* Storage::update: the same with the updated rows
Storage_update(st, t, updates, P, ticks) ==
    IF ~st.tables[t].present THEN [st EXCEPT !.err = TRUE]
    ELSE LET u == TableData_update(st.tables[t].rows, updates, P)
             m == [st EXCEPT !.tables[t].rows = u.rows]
         IN IF u.count > 0
            THEN WithRet(PersistRows(get_btree(m, t), t, u.rows, ticks, 1), u.count)
            ELSE [m EXCEPT !.ret = u.count]

\* a faulty removal, which leaves the file in the directory
KeepFile(file) == file

\* std::fs::remove_file(path), its result ignored
RemoveFile(file) == NoFile

\* Storage::drop_table
Storage_drop_table(st, t) ==
    [st EXCEPT !.tables[t] = NoTable,
               !.btrees[t] = Closed,
               !.files[t] = RemoveFile(st.files[t])]

\* the rows scan yields from the tree of t: sr.into() of every value
RECURSIVE RowsOf(_)
RowsOf(entries) ==
    IF entries = <<>> THEN <<>>
    ELSE <<DeserializeRow(Head(entries).value)>> \o RowsOf(Tail(entries))

\* Storage::load_all, one directory entry: open the tree, scan it, and put
\* the rows into the table map
\* tree.scan(..) has ended with pager value sc: tables.insert(table_name,
\* table_data), whatever the scan returned
LoadScanned(st, t, sc) ==
    [st EXCEPT !.files[t] = sc.file, !.btrees[t] = Mem(sc),
               !.tables[t] = [present |-> TRUE,
                              rows |-> IF sc.err THEN <<>> ELSE RowsOf(sc.ret)]]

\* if let Ok(tree) = self.get_btree(&table_name) { .. }
LoadOpened(st, t) ==
    IF st.err THEN [st EXCEPT !.err = FALSE]
    ELSE LoadScanned(st, t, Tree_scan(PgOf(st, t)))

LoadTable(st, t) ==
    IF ~st.files[t].exists THEN st
    ELSE LoadOpened(get_btree(st, t), t)

RECURSIVE LoadTables(_, _)
LoadTables(st, ts) ==
    IF ts = {} THEN st
    ELSE LET t == CHOOSE x \in ts : TRUE
         IN LoadTables(LoadTable(st, t), ts \ {t})

\* Storage::new in a new process: empty maps, then load_all
Storage_new(st) ==
    LoadTables([st EXCEPT !.tables = [t \in Tables |-> NoTable],
                          !.btrees = [t \in Tables |-> Closed]], Tables)

-----------------------------------------------------------------------------
(* The storage engine as a state machine: one process calling the Storage   *)
(* API on Tables, and the process ending and a new one starting             *)

\* Storage::new over an empty data directory, before load_all
EmptyStorage ==
    [files |-> [t \in Tables |-> NoFile], btrees |-> [t \in Tables |-> Closed],
     tables |-> [t \in Tables |-> NoTable], clock |-> 0, err |-> FALSE, ret |-> 0]

\* the rows the process has inserted into TREE_TABLE and into "t2" so far
PrefillRows == <<[id |-> 1, v |-> 1], [id |-> 2, v |-> 1], [id |-> 1, v |-> 2]>>

OtherPrefillRows == <<[id |-> 1], [id |-> 2]>>

StartClock == Len(PrefillRows) + Len(OtherPrefillRows)

RECURSIVE InsertRows(_, _, _, _)
InsertRows(st, t, rows, i) ==
    IF st.err \/ i > Len(rows) THEN st
    ELSE InsertRows(Storage_insert(st, t, rows[i], 1), t, rows, i + 1)

PrefillStorage(full) ==
    IF full
    THEN InsertRows(InsertRows(EmptyStorage, TREE_TABLE, PrefillRows, 1),
                    "t2", OtherPrefillRows, 1)
    ELSE EmptyStorage

\* the process has started on an empty data directory and has inserted
\* nothing or the prefill rows; the clock shows a time after these inserts
StorageInit ==
    \E full \in BOOLEAN :
        \E s0 \in {PrefillStorage(full)} :
           /\ files = s0.files
           /\ btrees = s0.btrees
           /\ tables = s0.tables
           /\ clock = StartClock
           /\ shadow = EmptyMap
           /\ last = [op |-> "new"]
           /\ OthersIdle

\* the state a storage call leaves (an Err return keeps what was done before it)
StorageStep(r) ==
    /\ r.clock <= MaxClock
    /\ files' = r.files
    /\ btrees' = r.btrees
    /\ tables' = r.tables
    /\ clock' = r.clock
    /\ UNCHANGED <<shadow, rest>>

\* by how much the clock moves on between two readings
ClockSteps == {1}

Ticks(n) == [1..n -> ClockSteps]

\* what a call on table t finds: the rows of t and all there is of the
\* other tables
Before(t) ==
    [rows |-> tables[t].rows,
     others |-> [u \in Tables \ {t} |->
                    [table |-> tables[u], file |-> files[u], btree |-> btrees[u]]]]

RowBound(t) == IF t = TREE_TABLE THEN MaxRows ELSE OtherRows

StorageGetOrCreateTable(t) ==
    \E r \in {get_or_create_table(St, t)} :
       /\ StorageStep(r)
       /\ last' = [op |-> "get_or_create_table", table |-> t, ok |-> ~r.err]

\* the keys the tree of t holds (the tree opened when it is not)
StoredKeys(t) ==
    {e.key : e \in {Tree_scan(PgOf(get_btree(St, t), t)).ret[i] :
                        i \in 1..Len(Tree_scan(PgOf(get_btree(St, t), t)).ret)}}

StorageInsert(t, row, tick) ==
    \E r \in {Storage_insert(St, t, row, tick)} :
       /\ Len(tables[t].rows) < RowBound(t)
       /\ StorageStep(r)
       /\ last' = [op |-> "insert", table |-> t, row |-> row, ok |-> ~r.err,
                   fresh |-> generate_row_key(St, t) \notin StoredKeys(t),
                   on_dropped |-> ~tables[t].present /\ ~btrees[t].open
                                    /\ ~files[t].exists,
                   after_drop |-> last.op = "drop_table" /\ last.table = t
                                    /\ last.rows > 0]

StorageSelect(t, columns, P) ==
    \E r \in {Storage_select(St, t, columns, P)} :
       /\ StorageStep(r)
       /\ last' = [op |-> "select", table |-> t, ok |-> ~r.err]

StorageDelete(t, P) ==
    \E ticks \in Ticks(Len(Retain(tables[t].rows, P))) :
        \E r \in {Storage_delete(St, t, P, ticks)} :
           /\ StorageStep(r)
           /\ last' = [op |-> "delete", table |-> t, pred |-> P, ok |-> ~r.err,
                       ret |-> r.ret, before |-> Before(t)]

StorageUpdate(t, updates, P) ==
    \E ticks \in Ticks(Len(tables[t].rows)) :
        \E r \in {Storage_update(St, t, updates, P, ticks)} :
           /\ StorageStep(r)
           /\ last' = [op |-> "update", table |-> t, updates |-> updates, pred |-> P,
                       ok |-> ~r.err, ret |-> r.ret, before |-> Before(t)]

StorageDropTable(t) ==
    \E r \in {Storage_drop_table(St, t)} :
       /\ StorageStep(r)
       /\ last' = [op |-> "drop_table", table |-> t, ok |-> ~r.err,
                   rows |-> Len(tables[t].rows)]

\* the process ends and the next one builds its Storage from the directory
StorageRestart ==
    \E r \in {Storage_new(St)} :
       /\ StorageStep(r)
       /\ last' = [op |-> "restart"]

StorageNext ==
    \/ \E t \in Tables : StorageGetOrCreateTable(t)
    \/ \E t \in Tables, row \in InputRows, tick \in ClockSteps : StorageInsert(t, row, tick)
    \/ \E t \in Tables, columns \in {{}, {"v"}}, P \in Preds : StorageSelect(t, columns, P)
    \/ \E t \in Tables, P \in Preds : StorageDelete(t, P)
    \/ \E t \in Tables, updates \in UpdateMaps, P \in Preds : StorageUpdate(t, updates, P)
    \/ \E t \in Tables : StorageDropTable(t)
    \/ StorageRestart

SpecStorage == StorageInit /\ [][StorageNext]_vars

\* the clock may show the same nanosecond at two readings (a coarse clock,
\* or two threads reading it at the same time)
CoarseClockSteps == {0, 1}

ClockNext ==
    \/ \E t \in Tables, row \in InputRows, tick \in CoarseClockSteps :
            StorageInsert(t, row, tick)
    \/ \E t \in Tables, columns \in {{}}, P \in Preds : StorageSelect(t, columns, P)
    \/ StorageRestart

SpecClock == StorageInit /\ [][ClockNext]_vars

-----------------------------------------------------------------------------
(* Storage calls from several connections.  Every caller makes one call on  *)
(* TREE_TABLE; a step of a caller is what the call does while it holds one   *)
(* lock: the table map (RwLock), the tree map (RwLock), the tree (Mutex).    *)

Callers == 1..NumCallers

\* the calls a caller may make
CallMenu ==
    {[op |-> "insert", row |-> row] : row \in InputRows}
        \cup {[op |-> "delete", pred |-> P] : P \in Preds}
        \cup {[op |-> "update", updates |-> u, pred |-> P] : u \in UpdateMaps, P \in Preds}
        \cup {[op |-> "select", pred |-> P] : P \in Preds}

NotCalled == [pc |-> "idle"]

\* the caller returns
Returned(c, ok, ret) ==
    [pc |-> "returned", call |-> calls[c].call, after |-> calls[c].after,
     ok |-> ok, ret |-> ret]

\* the state a step of a caller leaves in the row store
CallStep(r) ==
    /\ files' = r.files
    /\ btrees' = r.btrees
    /\ tables' = r.tables
    /\ clock' = r.clock
    /\ UNCHANGED <<shadow, last, catalog, pool, conn>>

CallsInit ==
    \E full \in BOOLEAN :
        \E s0 \in {PrefillStorage(full)} :
           /\ files = s0.files
           /\ btrees = s0.btrees
           /\ tables = s0.tables
           /\ clock = StartClock
           /\ shadow = EmptyMap
           /\ last = [op |-> "calls", st0 |-> [s0 EXCEPT !.clock = StartClock]]
           /\ calls = [c \in Callers |-> NotCalled]
           /\ catalog = Idle /\ pool = Idle /\ conn = Idle

\* a connection calls into the storage; `after` are the calls that have
\* returned by then
CallStart(c, call) ==
    /\ calls[c].pc = "idle"
    /\ calls' = [calls EXCEPT ![c] =
            [pc |-> call.op, call |-> call,
             after |-> {d \in Callers : calls[d].pc = "returned"}]]
    /\ UNCHANGED <<store, last, catalog, pool, conn>>

\* Storage::insert: self.get_or_create_table(table_name)?
InsertCreate(c) ==
    /\ calls[c].pc = "insert"
    /\ \E r \in {get_or_create_table(St, TREE_TABLE)} :
        /\ CallStep(r)
        /\ calls' = [calls EXCEPT ![c] =
                IF r.err THEN Returned(c, FALSE, 0) ELSE [@ EXCEPT !.pc = "push"]]

\* Storage::insert: the row pushed under the write lock of the table map
InsertPush(c) ==
    /\ calls[c].pc = "push"
    /\ \E r \in {TableData_insert(St, TREE_TABLE, calls[c].call.row)} :
        /\ CallStep(r)
        /\ calls' = [calls EXCEPT ![c] =
                IF r.err THEN Returned(c, FALSE, 0) ELSE [@ EXCEPT !.pc = "insert_btree"]]

\* Storage::insert: let tree = self.get_btree(table_name)?
InsertGetBtree(c) ==
    /\ calls[c].pc = "insert_btree"
    /\ \E r \in {get_btree(St, TREE_TABLE)} :
        /\ CallStep(r)
        /\ calls' = [calls EXCEPT ![c] =
                IF r.err THEN Returned(c, FALSE, 0) ELSE [@ EXCEPT !.pc = "insert_tree"]]

\* Storage::insert: the key generated, tree.insert(key, value)?; Ok(count)
InsertPersist(c) ==
    /\ calls[c].pc = "insert_tree"
    /\ \E r \in {PersistRow(St, TREE_TABLE, calls[c].call.row, 1)} :
        /\ CallStep(r)
        /\ calls' = [calls EXCEPT ![c] = Returned(c, ~r.err, IF r.err THEN 0 ELSE 1)]

\* Storage::delete under the write lock of the table map: the rows retained,
\* Ok(0) when no row went, else the remaining rows cloned for the tree
DeleteLocked(c) ==
    /\ calls[c].pc = "delete"
    /\ IF ~tables[TREE_TABLE].present
       THEN /\ calls' = [calls EXCEPT ![c] = Returned(c, FALSE, 0)]
            /\ UNCHANGED <<store, last, catalog, pool, conn>>
       ELSE \E kept \in {Retain(tables[TREE_TABLE].rows, calls[c].call.pred)} :
            \E deleted \in {Len(tables[TREE_TABLE].rows) - Len(kept)} :
               /\ tables' = [tables EXCEPT ![TREE_TABLE].rows = kept]
               /\ calls' = [calls EXCEPT ![c] =
                       IF deleted > 0
                       THEN [pc |-> "rebuild_btree", call |-> @.call, after |-> @.after,
                             count |-> deleted, todo |-> kept]
                       ELSE Returned(c, TRUE, deleted)]
               /\ UNCHANGED <<files, btrees, clock, shadow, last, catalog, pool, conn>>

\* Storage::update under the write lock of the table map
UpdateLocked(c) ==
    /\ calls[c].pc = "update"
    /\ IF ~tables[TREE_TABLE].present
       THEN /\ calls' = [calls EXCEPT ![c] = Returned(c, FALSE, 0)]
            /\ UNCHANGED <<store, last, catalog, pool, conn>>
       ELSE \E u \in {TableData_update(tables[TREE_TABLE].rows,
                                       calls[c].call.updates, calls[c].call.pred)} :
               /\ tables' = [tables EXCEPT ![TREE_TABLE].rows = u.rows]
               /\ calls' = [calls EXCEPT ![c] =
                       IF u.count > 0
                       THEN [pc |-> "rebuild_btree", call |-> @.call, after |-> @.after,
                             count |-> u.count, todo |-> u.rows]
                       ELSE Returned(c, TRUE, u.count)]
               /\ UNCHANGED <<files, btrees, clock, shadow, last, catalog, pool, conn>>

\* delete and update: let tree = self.get_btree(table_name)?
RebuildGetBtree(c) ==
    /\ calls[c].pc = "rebuild_btree"
    /\ \E r \in {get_btree(St, TREE_TABLE)} :
        /\ CallStep(r)
        /\ calls' = [calls EXCEPT ![c] =
                IF r.err THEN Returned(c, FALSE, 0)
                ELSE IF @.todo = <<>> THEN Returned(c, TRUE, @.count)
                ELSE [@ EXCEPT !.pc = "rebuild_tree"]]

\* delete and update: one turn of the loop that inserts the cloned rows into
\* the tree; Ok(count) after the last row
RebuildPersist(c) ==
    /\ calls[c].pc = "rebuild_tree"
    /\ \E r \in {PersistRow(St, TREE_TABLE, Head(calls[c].todo), 1)} :
        /\ CallStep(r)
        /\ calls' = [calls EXCEPT ![c] =
                IF r.err THEN Returned(c, FALSE, 0)
                ELSE IF Tail(@.todo) = <<>> THEN Returned(c, TRUE, @.count)
                ELSE [@ EXCEPT !.todo = Tail(@)]]

\* Storage::select under the read lock of the table map
SelectLocked(c) ==
    /\ calls[c].pc = "select"
    /\ calls' = [calls EXCEPT ![c] =
            IF ~tables[TREE_TABLE].present THEN Returned(c, FALSE, <<>>)
            ELSE Returned(c, TRUE,
                    TableData_select_columns(tables[TREE_TABLE].rows, {},
                                             calls[c].call.pred))]
    /\ UNCHANGED <<store, last, catalog, pool, conn>>

CallsNext ==
    \/ \E c \in Callers, call \in CallMenu : CallStart(c, call)
    \/ \E c \in Callers : InsertCreate(c)
    \/ \E c \in Callers : InsertPush(c)
    \/ \E c \in Callers : InsertGetBtree(c)
    \/ \E c \in Callers : InsertPersist(c)
    \/ \E c \in Callers : DeleteLocked(c)
    \/ \E c \in Callers : UpdateLocked(c)
    \/ \E c \in Callers : RebuildGetBtree(c)
    \/ \E c \in Callers : RebuildPersist(c)
    \/ \E c \in Callers : SelectLocked(c)

SpecCalls == CallsInit /\ [][CallsNext]_vars

\* the clock read once a row, each reading later than the one before
OneByOne(st) == [i \in 1..Len(st.tables[TREE_TABLE].rows) |-> 1]

\* the call made alone on the storage st
SeqCall(st, call) ==
    IF call.op = "insert" THEN Storage_insert(st, TREE_TABLE, call.row, 1)
    ELSE IF call.op = "delete"
         THEN Storage_delete(st, TREE_TABLE, call.pred, OneByOne(st))
    ELSE IF call.op = "update"
         THEN Storage_update(st, TREE_TABLE, call.updates, call.pred, OneByOne(st))
    ELSE Storage_select(st, TREE_TABLE, {}, call.pred)

\* the orders of the callers in which no call comes before one that had
\* returned when it started
CallOrders ==
    {o \in [1..NumCallers -> Callers] :
        /\ \A i, j \in 1..NumCallers : i # j => o[i] # o[j]
        /\ \A i, j \in 1..NumCallers : i < j => o[j] \notin calls[o[i]].after}

\* the storage after the first i calls of the order o made one at a time
RECURSIVE SeqRun(_, _)
SeqRun(o, i) ==
    IF i = 0 THEN last.st0
    ELSE [SeqCall(SeqRun(o, i - 1), calls[o[i]].call) EXCEPT !.err = FALSE]

\* the result of the i-th call of the order o made after the calls before it
SeqResult(o, i) == SeqCall(SeqRun(o, i - 1), calls[o[i]].call)

AllReturned == \A c \in Callers : calls[c].pc = "returned"

\* made one at a time in the order o, the calls return what they have
\* returned and leave the rows the table holds
Explains(o) ==
    /\ \A i \in 1..NumCallers :
          \E r \in {SeqResult(o, i)} :
             /\ calls[o[i]].ok = ~r.err
             /\ ~r.err => calls[o[i]].ret = r.ret
    /\ \E s \in {SeqRun(o, NumCallers)} :
          /\ tables[TREE_TABLE].present = s.tables[TREE_TABLE].present
          /\ tables[TREE_TABLE].rows = s.tables[TREE_TABLE].rows

-----------------------------------------------------------------------------
(* The catalog: CatalogData behind one RwLock, saved as a document *)

DbNames == {"default", "d1"}
TableNames == Tables
\* the column lists a table is created with
ColumnSets == {"id", "id_v"}

\* Option::None
None == "None"
\* a name that is not a key of the map
NoSchema == "no schema"
NoDatabase == [present |-> FALSE, tables |-> [t \in TableNames |-> NoSchema]]

\* CatalogData::default()
CatalogData_default == [databases |-> [d \in DbNames |-> NoDatabase], current_database |-> None]

\* no file at storage_path
NoDocument == [exists |-> FALSE, data |-> CatalogData_default]

\* serde_json::to_string_pretty(&*data) written to storage_path
Document(data) == [exists |-> TRUE, data |-> data]

\* DatabaseSchema { name, tables: HashMap::new() }
EmptyDatabase == [present |-> TRUE, tables |-> [t \in TableNames |-> NoSchema]]

\* Catalog::load_or_create; a document the catalog has saved parses to the
\* data it was written from
load_or_create(disk) ==
    IF disk.exists THEN disk.data
    ELSE [databases |-> [CatalogData_default.databases EXCEPT !["default"] = EmptyDatabase],
          current_database |-> "default"]

\* the outcome of the part of a call made under the write lock: the data it
\* leaves, what it returns there, or that it goes on to save
Locked(data, result) == [data |-> data, result |-> result]

\* a faulty test, which finds no key
ContainsNoKey(map, name, absent) == FALSE

\* HashMap::contains_key
contains_key(map, name, absent) == map[name] # absent

\* data.databases.keys().next().cloned(): any key of the map, None without
KeysNext(databases) ==
    IF \A d \in DbNames : databases[d] = NoDatabase THEN {None}
    ELSE {d \in DbNames : databases[d] # NoDatabase}

\* a faulty drop, which leaves the current database as it is
KeepCurrent(data, name, next) == data.current_database

\* drop_database: the current database after `name` has been removed
Repoint(data, name, next) ==
    IF data.current_database = name THEN next ELSE data.current_database

\* Catalog::create_database, under the write lock
Catalog_create_database(data, name, if_not_exists) ==
    IF contains_key(data.databases, name, NoDatabase)
    THEN Locked(data, IF if_not_exists THEN "Ok" ELSE "already exists")
    ELSE Locked([databases |-> [data.databases EXCEPT ![name] = EmptyDatabase],
                 current_database |->
                     IF data.current_database = None THEN name ELSE data.current_database],
                "save")

\* Catalog::drop_database, under the write lock
Catalog_drop_database(data, name, if_exists, next) ==
    IF ~contains_key(data.databases, name, NoDatabase)
    THEN Locked(data, IF if_exists THEN "Ok" ELSE "does not exist")
    ELSE LET removed == [data EXCEPT !.databases[name] = NoDatabase]
         IN Locked([removed EXCEPT !.current_database = Repoint(removed, name, next)], "save")

\* Catalog::create_table, under the write lock
Catalog_create_table(data, name, columns, if_not_exists) ==
    IF data.current_database = None THEN Locked(data, "No database selected")
    ELSE IF data.databases[data.current_database] = NoDatabase
         THEN Locked(data, "not found")
    ELSE IF contains_key(data.databases[data.current_database].tables, name, NoSchema)
         THEN Locked(data, IF if_not_exists THEN "Ok" ELSE "already exists")
    ELSE Locked([data EXCEPT !.databases[data.current_database].tables[name] = columns], "save")

\* Catalog::drop_table, under the write lock
Catalog_drop_table(data, name, if_exists) ==
    IF data.current_database = None THEN Locked(data, "No database selected")
    ELSE IF data.databases[data.current_database] = NoDatabase
         THEN Locked(data, "not found")
    ELSE IF ~contains_key(data.databases[data.current_database].tables, name, NoSchema)
         THEN Locked(data, IF if_exists THEN "Ok" ELSE "does not exist")
    ELSE Locked([data EXCEPT !.databases[data.current_database].tables[name] = NoSchema], "save")

\* Catalog::default() in a home directory without a catalog file
CatalogInit ==
    /\ catalog = [data |-> load_or_create(NoDocument), disk |-> NoDocument]
    /\ calls = [c \in Callers |-> "idle"]
    /\ last = [op |-> "load", oks |-> FALSE, changed |-> FALSE]
    /\ pool = Idle /\ conn = Idle
    /\ StoreIdle

\* the part of a call under the write lock: it returns there, or drops the
\* lock and goes on to self.save()
CatalogLocked(c, op, name, flag, r) ==
    /\ calls[c] = "idle"
    /\ catalog' = [catalog EXCEPT !.data = r.data]
    /\ calls' = [calls EXCEPT ![c] = IF r.result = "save" THEN "save" ELSE "idle"]
    /\ last' = [op |-> op, name |-> name, flag |-> flag, result |-> r.result,
                pre |-> catalog.data,
                oks |-> last.oks \/ r.result = "Ok",
                changed |-> last.changed \/ r.result = "save"]
    /\ UNCHANGED <<store, pool, conn>>

CatalogCreateDatabase(c, name, if_not_exists) ==
    CatalogLocked(c, "create_database", name, if_not_exists,
                  Catalog_create_database(catalog.data, name, if_not_exists))

CatalogDropDatabase(c, name, if_exists) ==
    \E next \in KeysNext([catalog.data.databases EXCEPT ![name] = NoDatabase]) :
        CatalogLocked(c, "drop_database", name, if_exists,
                      Catalog_drop_database(catalog.data, name, if_exists, next))

CatalogCreateTable(c, name, columns, if_not_exists) ==
    CatalogLocked(c, "create_table", name, if_not_exists,
                  Catalog_create_table(catalog.data, name, columns, if_not_exists))

CatalogDropTable(c, name, if_exists) ==
    CatalogLocked(c, "drop_table", name, if_exists,
                  Catalog_drop_table(catalog.data, name, if_exists))

\* Catalog::save: the data serialized and written under the read lock; the
\* call returns Ok
CatalogSave(c) ==
    /\ calls[c] = "save"
    /\ catalog' = [catalog EXCEPT !.disk = Document(catalog.data)]
    /\ calls' = [calls EXCEPT ![c] = "idle"]
    /\ last' = [last EXCEPT !.oks = TRUE]
    /\ UNCHANGED <<store, pool, conn>>

\* the process starts again: Catalog::default() loads the saved document
CatalogRestart ==
    /\ \A c \in Callers : calls[c] = "idle"
    /\ catalog' = [catalog EXCEPT !.data = load_or_create(catalog.disk)]
    /\ last' = [op |-> "load", oks |-> FALSE, changed |-> FALSE]
    /\ UNCHANGED <<store, calls, pool, conn>>

CatalogNext ==
    \/ \E c \in Callers, name \in DbNames, flag \in BOOLEAN : CatalogCreateDatabase(c, name, flag)
    \/ \E c \in Callers, name \in DbNames, flag \in BOOLEAN : CatalogDropDatabase(c, name, flag)
    \/ \E c \in Callers, name \in TableNames, columns \in ColumnSets, flag \in BOOLEAN :
          CatalogCreateTable(c, name, columns, flag)
    \/ \E c \in Callers, name \in TableNames, flag \in BOOLEAN : CatalogDropTable(c, name, flag)
    \/ \E c \in Callers : CatalogSave(c)
    \/ CatalogRestart

SpecCatalog == CatalogInit /\ [][CatalogNext]_vars

-----------------------------------------------------------------------------
(* The connection pool: a tokio Semaphore of max_connections permits, whose *)
(* waiters are served in the order they asked; and the tasks the servers     *)
(* spawn for the connections they accept                                     *)

Clients == 1..NumClients
Connections == 1..MaxTasks

\* ConnectionPool::new: Semaphore::new(config.max_connections)
ConnectionPool_new(max_connections) ==
    [max_connections |-> max_connections, available |-> max_connections,
     waiters |-> <<>>, assigned |-> {}]

\* ConnectionPool::available
available(p) == p.available

\* a faulty release, which loses the permit
LosePermit(p) == p

\* a permit goes back to the semaphore: to the acquire that has waited
\* longest, if one waits, else to the free permits
add_permit(p) ==
    IF p.waiters # <<>>
    THEN [p EXCEPT !.waiters = Tail(@), !.assigned = @ \cup {Head(p.waiters)}]
    ELSE [p EXCEPT !.available = @ + 1]

\* a faulty timeout, which leaves the acquire among the waiters
KeepWaiter(waiters, c) == waiters

\* the acquire future dropped by tokio::time::timeout leaves the waiters
RemoveWaiter(waiters, c) == SelectSeq(waiters, LAMBDA w : w # c)

\* the clients that hold a ConnectionGuard
LiveGuards == {c \in Clients : calls[c] = "guard"}

PoolInit ==
    /\ \E max_connections \in 0..MaxPermits : pool = ConnectionPool_new(max_connections)
    /\ calls = [c \in Clients |-> "idle"]
    /\ conn = {}
    /\ last = [op |-> "new"]
    /\ catalog = Idle
    /\ StoreIdle

\* ConnectionPool::acquire, the first poll: a free permit is taken and the
\* guard returned, else the caller waits behind the earlier waiters
PoolAcquire(c) ==
    /\ calls[c] \in {"idle", "timeout"}
    /\ IF pool.available > 0
       THEN /\ pool' = [pool EXCEPT !.available = @ - 1]
            /\ calls' = [calls EXCEPT ![c] = "guard"]
       ELSE /\ pool' = [pool EXCEPT !.waiters = Append(@, c)]
            /\ calls' = [calls EXCEPT ![c] = "waiting"]
    /\ last' = [op |-> "acquire", client |-> c, free |-> pool.available]
    /\ UNCHANGED <<store, catalog, conn>>

\* ConnectionPool::acquire, Ok(Ok(permit)): the waiting caller has been given
\* a permit and returns the guard
PoolAcquired(c) ==
    /\ calls[c] = "waiting"
    /\ c \in pool.assigned
    /\ pool' = [pool EXCEPT !.assigned = @ \ {c}]
    /\ calls' = [calls EXCEPT ![c] = "guard"]
    /\ last' = [op |-> "acquired", client |-> c, free |-> pool.available]
    /\ UNCHANGED <<store, catalog, conn>>

\* ConnectionPool::acquire, Err(_): connection_timeout_ms have passed and the
\* caller has been given no permit
PoolTimeout(c) ==
    /\ calls[c] = "waiting"
    /\ c \notin pool.assigned
    /\ pool' = [pool EXCEPT !.waiters = RemoveWaiter(@, c)]
    /\ calls' = [calls EXCEPT ![c] = "timeout"]
    /\ last' = [op |-> "timeout", client |-> c, free |-> pool.available]
    /\ UNCHANGED <<store, catalog, conn>>

\* the ConnectionGuard dropped
PoolDrop(c) ==
    /\ calls[c] = "guard"
    /\ pool' = add_permit(pool)
    /\ calls' = [calls EXCEPT ![c] = "idle"]
    /\ last' = [op |-> "drop", client |-> c,
                free |-> pool.available + Cardinality(pool.assigned)]
    /\ UNCHANGED <<store, catalog, conn>>

\* start_server and start_tcp_server: a connection accepted and its handler
\* spawned
ServerAccept(k) ==
    /\ k \notin conn
    /\ conn' = conn \cup {k}
    /\ last' = [op |-> "accept", connection |-> k]
    /\ UNCHANGED <<store, catalog, pool, calls>>

\* the handler of a connection returns
ServerClose(k) ==
    /\ k \in conn
    /\ conn' = conn \ {k}
    /\ last' = [op |-> "close", connection |-> k]
    /\ UNCHANGED <<store, catalog, pool, calls>>

PoolNext ==
    \/ \E c \in Clients : PoolAcquire(c)
    \/ \E c \in Clients : PoolAcquired(c)
    \/ \E c \in Clients : PoolTimeout(c)
    \/ \E c \in Clients : PoolDrop(c)
    \/ \E k \in Connections : ServerAccept(k)
    \/ \E k \in Connections : ServerClose(k)

\* the runtime polls a woken task and fires a timer that is due
PoolFairness == \A c \in Clients : WF_vars(PoolAcquired(c)) /\ WF_vars(PoolTimeout(c))

SpecPool == PoolInit /\ [][PoolNext]_vars /\ PoolFairness

-----------------------------------------------------------------------------
(* One connection of the binary protocol: the client sends frames, the      *)
(* handler reads a frame, services it and writes one frame                   *)

\* the type bytes a client sends: the five message types and bytes that are
\* none of them
TypeBytes == {0, 1, 2, 3, 4, 5, 6, 255}

\* the SQL a client sends: a statement that runs and one that does not parse
SqlTexts == {"SELECT 1", "SELEC"}

Frame(type, payload) == [type |-> type, payload |-> payload]

\* the frames a client sends
ClientFrames ==
    {Frame(1, sql) : sql \in SqlTexts} \cup {Frame(b, "") : b \in TypeBytes \ {1}}

\* a faulty conversion, which takes every byte that is no type for a Query
FromQueryByDefault(v) ==
    IF v = 2 THEN "Result" ELSE IF v = 3 THEN "Error"
    ELSE IF v = 4 THEN "Ping" ELSE IF v = 5 THEN "Pong" ELSE "Query"

\* impl From<u8> for MessageType
MessageType_from(v) ==
    IF v = 1 THEN "Query" ELSE IF v = 2 THEN "Result" ELSE IF v = 3 THEN "Error"
    ELSE IF v = 4 THEN "Ping" ELSE IF v = 5 THEN "Pong" ELSE "Error"

\* self.msg_type as u8
MessageType_as_u8(t) ==
    IF t = "Query" THEN 1 ELSE IF t = "Result" THEN 2 ELSE IF t = "Error" THEN 3
    ELSE IF t = "Ping" THEN 4 ELSE 5

\* execute_sql: the ExecutionResult of the statement, the Error variant when
\* it does not parse
execute_sql(sql) ==
    IF sql = "SELEC" THEN [variant |-> "Error", of |-> sql]
    ELSE [variant |-> "Rows", of |-> sql]

\* ExecutionResult::to_json
to_json(result) == [json |-> result]

\* the frame the handler answers a frame with, and the SQL it executes
Service(frame) ==
    LET msg_type == MessageType_from(frame.type)
    IN IF msg_type = "Query"
       THEN [response |-> Frame(MessageType_as_u8("Result"), to_json(execute_sql(frame.payload))),
             executed |-> <<frame.payload>>]
       ELSE IF msg_type = "Ping"
       THEN [response |-> Frame(MessageType_as_u8("Pong"), ""), executed |-> <<>>]
       ELSE [response |-> Frame(MessageType_as_u8("Error"), "Unknown command"),
             executed |-> <<>>]

\* a faulty write, which sends nothing
WriteNothing(out, response) == out

\* response.write_async(&mut stream)
write_async(out, response) == Append(out, response)

ConnInit ==
    /\ conn = [pc |-> "read", inbox |-> <<>>, sent |-> 0, served |-> <<>>,
               pending |-> <<>>, out |-> <<>>, executed |-> <<>>]
    /\ last = [op |-> "accept"]
    /\ calls = Idle /\ catalog = Idle /\ pool = Idle
    /\ StoreIdle

\* the client sends a frame
ClientSend(frame) ==
    /\ conn.sent < MaxFrames
    /\ conn.pc # "closed"
    /\ conn' = [conn EXCEPT !.inbox = Append(@, frame), !.sent = @ + 1]
    /\ last' = [op |-> "send"]
    /\ UNCHANGED <<store, calls, catalog, pool>>

\* Message::read_async returns a frame and the handler services it
HandlerRead ==
    /\ conn.pc = "read"
    /\ conn.inbox # <<>>
    /\ \E r \in {Service(Head(conn.inbox))} :
          conn' = [conn EXCEPT
                     !.pc = "write",
                     !.inbox = Tail(@),
                     !.served = Append(@, [frame |-> Head(conn.inbox),
                                           written |-> Len(conn.out)]),
                     !.pending = <<[for |-> Len(conn.served) + 1, frame |-> r.response]>>,
                     !.executed = @ \o r.executed]
    /\ last' = [op |-> "read"]
    /\ UNCHANGED <<store, calls, catalog, pool>>

\* the response written; the handler turns to the next frame
HandlerWrite ==
    /\ conn.pc = "write"
    /\ conn' = [conn EXCEPT !.pc = "read",
                            !.out = write_async(@, Head(conn.pending)),
                            !.pending = <<>>]
    /\ last' = [op |-> "write"]
    /\ UNCHANGED <<store, calls, catalog, pool>>

\* the client has gone: read_async or write_async fails and the loop breaks
HandlerBreak ==
    /\ conn.pc # "closed"
    /\ conn.pc = "read" => conn.inbox = <<>>
    /\ conn' = [conn EXCEPT !.pc = "closed", !.pending = <<>>]
    /\ last' = [op |-> "break", at |-> conn.pc]
    /\ UNCHANGED <<store, calls, catalog, pool>>

ConnNext ==
    \/ \E frame \in ClientFrames : ClientSend(frame)
    \/ HandlerRead
    \/ HandlerWrite
    \/ HandlerBreak

SpecConn == ConnInit /\ [][ConnNext]_vars

-----------------------------------------------------------------------------
(* The frame of the binary protocol: Message::to_bytes and the readers.     *)
(* A payload is its length and a mark for its bytes; the five bytes before   *)
(* it are written out.  A length is written in two halves of 16 bits,        *)
(* hi * 65536 + lo.                                                          *)

MessageTypes == {"Query", "Result", "Error", "Ping", "Pong"}

\* the payload lengths a message is made with, around the byte boundaries of
\* the length field
U32(hi, lo) == [hi |-> hi, lo |-> lo]

PayloadLens ==
    {U32(0, 0), U32(0, 1), U32(0, 19), U32(0, 255), U32(0, 256), U32(0, 65535),
     U32(1, 0), U32(256, 0), U32(65535, 65535)}

Payload(len, data) == [len |-> len, data |-> data]

\* the messages to write
Messages ==
    {[msg_type |-> t, payload |-> Payload(n, d)] :
        t \in MessageTypes, n \in PayloadLens, d \in {"a", "b"}}

\* a faulty encoding: the most significant byte first
to_be_bytes(n) == <<n.hi \div 256, n.hi % 256, n.lo \div 256, n.lo % 256>>

\* u32::to_le_bytes
to_le_bytes(n) == <<n.lo % 256, n.lo \div 256, n.hi % 256, n.hi \div 256>>

\* u32::from_le_bytes
from_le_bytes(b) == U32(b[3] + 256 * b[4], b[1] + 256 * b[2])

\* self.payload.len() as u32
as_u32(n) == U32(n.hi % 65536, n.lo)

\* a > b
Longer(a, b) == a.hi > b.hi \/ (a.hi = b.hi /\ a.lo > b.lo)

\* Message::to_bytes: self.payload.len() as u32, the type byte, the payload
Message_to_bytes(msg) ==
    [head |-> to_le_bytes(as_u32(msg.payload.len))
                  \o <<MessageType_as_u8(msg.msg_type)>>,
     body |-> msg.payload]

\* Message::read_from and Message::read_async on a stream that holds the
\* bytes: read_exact fails when the stream ends before `len` bytes
Message_read(bytes) ==
    LET len == from_le_bytes(SubSeq(bytes.head, 1, 4))
        msg_type == MessageType_from(bytes.head[5])
    IN IF Longer(len, bytes.body.len) THEN [ok |-> FALSE]
       ELSE [ok |-> TRUE, msg_type |-> msg_type, payload |-> Payload(len, bytes.body.data)]

MessageInit ==
    /\ \E msg \in Messages : conn = [pc |-> "made", msg |-> msg]
    /\ last = [op |-> "message"]
    /\ calls = Idle /\ catalog = Idle /\ pool = Idle
    /\ StoreIdle

\* msg.to_bytes()
MessageWrite ==
    /\ conn.pc = "made"
    /\ conn' = [pc |-> "written", msg |-> conn.msg, bytes |-> Message_to_bytes(conn.msg)]
    /\ last' = [op |-> "to_bytes"]
    /\ UNCHANGED <<store, calls, catalog, pool>>

\* Message::read_from / read_async on the bytes written
MessageRead ==
    /\ conn.pc = "written"
    /\ conn' = [pc |-> "read", msg |-> conn.msg, bytes |-> conn.bytes,
                back |-> Message_read(conn.bytes)]
    /\ last' = [op |-> "read"]
    /\ UNCHANGED <<store, calls, catalog, pool>>

MessageNext == MessageWrite \/ MessageRead

SpecMessage == MessageInit /\ [][MessageNext]_vars

-----------------------------------------------------------------------------
(* start_server: the protocol of a connection is chosen from the bytes a    *)
(* peek returns.  Bytes are their codes.                                     *)

\* the binary ping frame [00 00 00 00][04]
PingFrame == <<0, 0, 0, 0, 4>>

\* "GET ", "POST", "PUT ", "HEAD", "DELE", "OPTI"
HttpPrefixes ==
    {<<71, 69, 84, 32>>, <<80, 79, 83, 84>>, <<80, 85, 84, 32>>,
     <<72, 69, 65, 68>>, <<68, 69, 76, 69>>, <<79, 80, 84, 73>>}

\* the first five bytes a client sends: the ping frame, the head of a Query
\* frame, of the six HTTP methods, of "PATCH", of "GETX " and of "get /"
FirstBytes ==
    {PingFrame, <<8, 0, 0, 0, 1>>}
        \cup {p \o <<32>> : p \in HttpPrefixes}
        \cup {<<80, 65, 84, 67, 72>>, <<71, 69, 84, 88, 32>>, <<103, 101, 116, 32, 47>>}

\* Ok(n) if n >= 4
PeekedEnough(n) == n >= 4

\* start.starts_with(..) on the bytes peeked
starts_with_http(peeked) ==
    \E p \in HttpPrefixes : Len(peeked) >= 4 /\ SubSeq(peeked, 1, 4) = p

\* the handler start_server gives the connection to, from the n bytes the
\* peek has returned
Dispatch(data, n) ==
    IF PeekedEnough(n)
    THEN IF starts_with_http(SubSeq(data, 1, n)) THEN "http" ELSE "binary"
    ELSE "http"

DetectInit ==
    /\ \E data \in FirstBytes :
          conn = [pc |-> "accepted", data |-> data, arrived |-> 0, peeked |-> 0,
                  reply |-> <<>>]
    /\ last = [op |-> "accept"]
    /\ calls = Idle /\ catalog = Idle /\ pool = Idle
    /\ StoreIdle

\* the next k bytes of the client reach the server
BytesArrive(k) ==
    /\ conn.arrived + k <= Len(conn.data)
    /\ conn' = [conn EXCEPT !.arrived = @ + k]
    /\ last' = [op |-> "arrive"]
    /\ UNCHANGED <<store, calls, catalog, pool>>

\* stream.peek(&mut peek_buf) returns the bytes that are there, at least one,
\* and the handler is chosen
ServerPeek ==
    /\ conn.pc = "accepted"
    /\ conn.arrived >= 1
    /\ conn' = [conn EXCEPT !.pc = Dispatch(conn.data, conn.arrived),
                            !.peeked = conn.arrived]
    /\ last' = [op |-> "peek"]
    /\ UNCHANGED <<store, calls, catalog, pool>>

\* handle_tcp_protocol has read the ping frame and answers it
BinaryReply ==
    /\ conn.pc = "binary"
    /\ conn.data = PingFrame
    /\ conn.arrived = Len(conn.data)
    /\ conn.reply = <<>>
    /\ conn' = [conn EXCEPT !.reply = <<Service(Frame(conn.data[5], "")).response>>]
    /\ last' = [op |-> "reply"]
    /\ UNCHANGED <<store, calls, catalog, pool>>

\* handle_http_protocol reads what is there and writes an HTTP response
HttpReply ==
    /\ conn.pc = "http"
    /\ conn.reply = <<>>
    /\ conn' = [conn EXCEPT !.reply = <<[type |-> "HTTP/1.1", payload |-> ""]>>]
    /\ last' = [op |-> "reply"]
    /\ UNCHANGED <<store, calls, catalog, pool>>

DetectNext ==
    \/ \E k \in 1..5 : BytesArrive(k)
    \/ ServerPeek
    \/ BinaryReply
    \/ HttpReply

SpecDetect == DetectInit /\ [][DetectNext]_vars

-----------------------------------------------------------------------------
(* The executor (executor/mod.rs) over the catalog and the storage engine:  *)
(* one statement at a time, Executor::execute called with a parsed          *)
(* statement.  A result is [variant, count]; an INSERT names its columns or *)
(* not, and its row literals are lists of number literals                   *)

\* the columns of a schema created with the column list `label`
SchemaColumns(label) == IF label = "id" THEN <<"id">> ELSE <<"id", "v">>

\* columns: Option<&Vec<String>>
NoColumns == [listed |-> FALSE, names |-> <<>>]
Listed(names) == [listed |-> TRUE, names |-> names]
ColumnLists == {NoColumns, Listed(<<"v">>), Listed(<<"id", "v">>)}

\* a row literal: its expressions are number literals
RowLiterals == {<<1>>, <<1, 2>>, <<1, 2, 1>>}

\* the VALUES lists of an INSERT
ValuesLists == {<<a>> : a \in RowLiterals} \cup {<<a, b>> : a, b \in RowLiterals}

ExecError == [variant |-> "Error", count |-> 0]
RowsAffected(count) == [variant |-> "RowsAffected", count |-> count]
Success == [variant |-> "Success", count |-> 0]

\* Catalog::get_table, under the read lock
Catalog_get_table(data, name) ==
    IF data.current_database = None THEN [ok |-> FALSE, schema |-> NoSchema]
    ELSE IF data.databases[data.current_database] = NoDatabase
         THEN [ok |-> FALSE, schema |-> NoSchema]
    ELSE IF ~contains_key(data.databases[data.current_database].tables, name, NoSchema)
         THEN [ok |-> FALSE, schema |-> NoSchema]
    ELSE [ok |-> TRUE, schema |-> data.databases[data.current_database].tables[name]]

\* a faulty test, which lets a short row literal pass
MismatchWhenLonger(row_values, col_names) == Len(row_values) > Len(col_names)

\* row_values.len() != col_names.len()
ColumnCountMismatch(row_values, col_names) == Len(row_values) # Len(col_names)

\* the value of a number literal of a row literal, on the empty row
EvalCell(expr) == expr

\* row.insert(col_names[i].clone(), value) for each expression: a later
\* value of a column replaces an earlier one
BuildRow(col_names, row_values) ==
    [c \in {col_names[i] : i \in 1..Len(row_values)} |->
        EvalCell(row_values[CHOOSE i \in 1..Len(row_values) :
                              /\ col_names[i] = c
                              /\ \A j \in (i + 1)..Len(row_values) : col_names[j] # c])]

\* for row_values in values { .. }: st.ret is the result, once there is one
RECURSIVE InsertLiterals(_, _, _, _, _, _)
InsertLiterals(st, table, col_names, values, i, total_inserted) ==
    IF i > Len(values) THEN [st EXCEPT !.ret = RowsAffected(total_inserted)]
    ELSE IF ColumnCountMismatch(values[i], col_names) THEN [st EXCEPT !.ret = ExecError]
    ELSE LET r == Storage_insert(st, table, BuildRow(col_names, values[i]), 1)
         IN IF r.err THEN [r EXCEPT !.ret = ExecError]
            ELSE InsertLiterals(r, table, col_names, values, i + 1, total_inserted + r.ret)

\* Executor::execute_insert
execute_insert(data, st, table, columns, values) ==
    LET found == Catalog_get_table(data, table)
    IN IF ~found.ok THEN [st EXCEPT !.ret = ExecError]
       ELSE InsertLiterals(st, table,
                           IF columns.listed THEN columns.names
                           ELSE SchemaColumns(found.schema),
                           values, 1, 0)

\* the process starts in a home directory without a catalog file and an
\* empty data directory
ExecInit ==
    /\ catalog = [data |-> load_or_create(NoDocument), disk |-> NoDocument]
    /\ files = EmptyStorage.files
    /\ btrees = EmptyStorage.btrees
    /\ tables = EmptyStorage.tables
    /\ clock = 0
    /\ shadow = EmptyMap
    /\ last = [op |-> "start"]
    /\ calls = Idle /\ pool = Idle /\ conn = Idle

\* what a statement leaves of the storage engine
ExecStorage(r) ==
    /\ r.clock <= MaxInserts
    /\ files' = r.files
    /\ btrees' = r.btrees
    /\ tables' = r.tables
    /\ clock' = r.clock
    /\ UNCHANGED <<shadow, calls, pool, conn>>

\* Executor::execute_create_table: CATALOG.create_table (which saves), then
\* STORAGE.get_or_create_table, whose result is dropped
ExecCreateTable(name, columns, if_not_exists) ==
    \E c \in {Catalog_create_table(catalog.data, name, columns, if_not_exists)} :
       /\ catalog' = IF c.result = "save"
                     THEN [data |-> c.data, disk |-> Document(c.data)]
                     ELSE catalog
       /\ ExecStorage(IF c.result \in {"save", "Ok"} THEN get_or_create_table(St, name) ELSE St)
       /\ last' = [op |-> "create_table", table |-> name,
                   result |-> IF c.result \in {"save", "Ok"} THEN Success ELSE ExecError,
                   created |-> c.result = "save"]

\* Executor::execute_drop_table: CATALOG.drop_table (which saves), then
\* STORAGE.drop_table, whose result is dropped
ExecDropTable(name, if_exists) ==
    \E c \in {Catalog_drop_table(catalog.data, name, if_exists)} :
       /\ catalog' = IF c.result = "save"
                     THEN [data |-> c.data, disk |-> Document(c.data)]
                     ELSE catalog
       /\ ExecStorage(IF c.result \in {"save", "Ok"} THEN Storage_drop_table(St, name) ELSE St)
       /\ last' = [op |-> "drop_table", table |-> name,
                   result |-> IF c.result \in {"save", "Ok"} THEN Success ELSE ExecError]

\* Statement::Insert executed
ExecInsert(table, columns, values) ==
    \E r \in {execute_insert(catalog.data, St, table, columns, values)} :
       /\ Len(tables[table].rows) + Len(values) <= OtherRows
       /\ ExecStorage(r)
       /\ UNCHANGED catalog
       /\ last' = [op |-> "insert", table |-> table, columns |-> columns,
                   values |-> values, result |-> r.ret,
                   pre |-> [files |-> files, btrees |-> btrees, tables |-> tables]]

ExecNext ==
    \/ \E name \in Tables, columns \in ColumnSets, flag \in BOOLEAN :
          ExecCreateTable(name, columns, flag)
    \/ \E name \in Tables, flag \in BOOLEAN : ExecDropTable(name, flag)
    \/ \E table \in Tables, columns \in ColumnLists, values \in ValuesLists :
          ExecInsert(table, columns, values)

SpecExec == ExecInit /\ [][ExecNext]_vars

-----------------------------------------------------------------------------
(* Expression evaluation (executor/mod.rs).  A 64-bit integer is written   *)
(* I64(k, d) and stands for k * 2^62 + d with d small: the numbers near 0   *)
(* and near the ends of the i64 range, i64::MIN = I64(-2, 0) and            *)
(* i64::MAX = I64(2, -1).  `h` counts multiples of 2^124 in an exact        *)
(* product.  A float is written F64(k, q) and stands for k * 2^62 + q / 4.  *)
(* A Value is [kind, k, d]; an evaluation ends with a Value or panics       *)

I64(k, d) == [k |-> k, d |-> d, h |-> 0]

I64_MIN == I64(-2, 0)
I64_MAX == I64(2, -1)

\* the exact number lies in the i64 range
InI64(n) ==
    /\ n.h = 0
    /\ \/ n.k \in -1..1
       \/ n.k = -2 /\ n.d >= 0
       \/ n.k = 2 /\ n.d < 0

\* the number modulo 2^64, in the i64 range
Wrap(n) ==
    LET k0 == ((n.k + 2) % 4) - 2
    IN IF k0 = -2 /\ n.d < 0 THEN I64(2, n.d) ELSE I64(k0, n.d)

ExactAdd(a, b) == I64(a.k + b.k, a.d + b.d)
ExactSub(a, b) == I64(a.k - b.k, a.d - b.d)
ExactMul(a, b) == [k |-> a.k * b.d + b.k * a.d, d |-> a.d * b.d, h |-> a.k * b.k]
ExactNeg(a) == I64(-a.k, -a.d)

IsNegative(n) == n.k < 0 \/ (n.k = 0 /\ n.d < 0)
Magnitude(n) == IF IsNegative(n) THEN ExactNeg(n) ELSE n
\* |a| >= |b|
NotSmaller(a, b) ==
    LET x == Magnitude(a)
        y == Magnitude(b)
    IN x.k > y.k \/ (x.k = y.k /\ x.d >= y.d)

\* the quotient of two small numbers, rounded towards zero
TruncDiv(a, b) ==
    LET q == (IF a < 0 THEN -a ELSE a) \div (IF b < 0 THEN -b ELSE b)
    IN IF (a < 0) = (b < 0) THEN q ELSE -q

\* the exact quotient a / b rounded towards zero, b # 0: for two small
\* numbers, for the divisors 1, -1 and 2, and for a divisor near the ends of
\* the range
ExactDiv(a, b) ==
    IF a.k = 0 /\ b.k = 0 THEN I64(0, TruncDiv(a.d, b.d))
    ELSE IF b = I64(0, 1) THEN a
    ELSE IF b = I64(0, -1) THEN ExactNeg(a)
    ELSE IF b = I64(0, 2)
         THEN IF IsNegative(a) THEN ExactNeg(I64((-a.k) \div 2, (-a.d) \div 2))
              ELSE I64(a.k \div 2, a.d \div 2)
    ELSE IF ~NotSmaller(a, b) THEN I64(0, 0)
    ELSE IF IsNegative(a) = IsNegative(b) THEN I64(0, 1) ELSE I64(0, -1)

Integer(n) == [kind |-> "Integer", k |-> n.k, d |-> n.d]
Float(k, q) == [kind |-> "Float", k |-> k, d |-> q]
Null == [kind |-> "Null", k |-> 0, d |-> 0]
Boolean(b) == [kind |-> "Boolean", k |-> 0, d |-> IF b THEN 1 ELSE 0]

AsI64(v) == I64(v.k, v.d)

\* `*a as f64`: a number near the ends of the range is rounded to 53 bits
as_f64(v) == IF v.k = 0 THEN Float(0, 4 * v.d) ELSE Float(v.k, 0)

\* f64 arithmetic; a sum with a number near 2^62 is rounded to it
FloatAdd(a, b) ==
    IF a.k = 0 /\ b.k = 0 THEN Float(0, a.d + b.d) ELSE Float(a.k + b.k, 0)
FloatSub(a, b) ==
    IF a.k = 0 /\ b.k = 0 THEN Float(0, a.d - b.d) ELSE Float(a.k - b.k, 0)
FloatMul(a, b) == Float(0, (a.d * b.d) \div 4)
FloatDiv(a, b) == Float(0, TruncDiv(4 * a.d, b.d))

Returns(v) == [outcome |-> "value", value |-> v]
Panics == [outcome |-> "panic", value |-> Null]

\* the two ways the crate is built: with overflow checks (the dev profile)
\* and without (the release profile)
Builds == {"debug", "release"}

\* a + b, a - b, a * b and i.abs() on i64: outside the range the operation
\* panics when overflow checks are on and wraps when they are off
Overflowing(exact, build) ==
    IF InI64(exact) THEN Returns(Integer(exact))
    ELSE IF build = "debug" THEN Panics
    ELSE Returns(Integer(Wrap(exact)))

\* a / b on i64, b # 0: i64::MIN / -1 panics in every build
Dividing(a, b) ==
    IF InI64(ExactDiv(a, b)) THEN Returns(Integer(ExactDiv(a, b))) ELSE Panics

ArithmeticOps == {"Plus", "Minus", "Multiply", "Divide"}
BinaryOps == ArithmeticOps \cup {"Modulo"}

\* Executor::eval_binary_op
eval_binary_op(left, op, right, build) ==
    LET ii == left.kind = "Integer" /\ right.kind = "Integer"
        ff == left.kind = "Float" /\ right.kind = "Float"
    IN CASE op = "Plus" ->
              IF ii THEN Overflowing(ExactAdd(AsI64(left), AsI64(right)), build)
              ELSE IF ff THEN Returns(FloatAdd(left, right))
              ELSE IF left.kind = "Integer" /\ right.kind = "Float"
                   THEN Returns(FloatAdd(as_f64(left), right))
              ELSE IF left.kind = "Float" /\ right.kind = "Integer"
                   THEN Returns(FloatAdd(left, as_f64(right)))
              ELSE Returns(Null)
         [] op = "Minus" ->
              IF ii THEN Overflowing(ExactSub(AsI64(left), AsI64(right)), build)
              ELSE IF ff THEN Returns(FloatSub(left, right))
              ELSE Returns(Null)
         [] op = "Multiply" ->
              IF ii THEN Overflowing(ExactMul(AsI64(left), AsI64(right)), build)
              ELSE IF ff THEN Returns(FloatMul(left, right))
              ELSE Returns(Null)
         [] op = "Divide" ->
              IF ii /\ AsI64(right) # I64(0, 0) THEN Dividing(AsI64(left), AsI64(right))
              ELSE IF ff /\ right.d # 0 THEN Returns(FloatDiv(left, right))
              ELSE Returns(Null)
         [] OTHER -> Returns(Null)

\* eval_expression on ABS(arg), the argument evaluated to v
eval_abs(v, build) ==
    IF v.kind = "Integer"
    THEN Overflowing(Magnitude(AsI64(v)), build)
    ELSE IF v.kind = "Float" THEN Returns(Float(IF v.k < 0 THEN -v.k ELSE v.k,
                                                IF v.d < 0 THEN -v.d ELSE v.d))
    ELSE Returns(Null)

\* the operands: integers near 0 and at the ends of the range, the floats
\* 0.0, 0.5 and -2.0, NULL and TRUE
IntegerOperands ==
    {Integer(n) : n \in {I64_MIN, I64(0, -1), I64(0, 0), I64(0, 1), I64(0, 2), I64_MAX}}
FloatOperands == {Float(0, 0), Float(0, 2), Float(0, -8)}
Operands == IntegerOperands \cup FloatOperands \cup {Null, Boolean(TRUE)}

\* a server of either build, before its first evaluation
EvalInit ==
    /\ \E build \in Builds : last = [op |-> "start", build |-> build]
    /\ OthersIdle /\ StoreIdle

\* a binary operation is evaluated on two values
EvalBinaryOp(left, op, right) ==
    /\ last' = [op |-> op, build |-> last.build, left |-> left, right |-> right,
                result |-> eval_binary_op(left, op, right, last.build)]
    /\ UNCHANGED <<store, rest>>

\* ABS is evaluated on a value
EvalAbs(v) ==
    /\ last' = [op |-> "ABS", build |-> last.build, left |-> v, right |-> Null,
                result |-> eval_abs(v, last.build)]
    /\ UNCHANGED <<store, rest>>

EvalNext ==
    \/ \E left \in Operands, op \in BinaryOps, right \in Operands : EvalBinaryOp(left, op, right)
    \/ \E v \in Operands : EvalAbs(v)

SpecEval == EvalInit /\ [][EvalNext]_vars

-----------------------------------------------------------------------------
(* BPlusTree::open on the files a data directory can hold: a file this      *)
(* engine wrote, or a file from elsewhere whose first page does not begin   *)
(* with "BFLY" (its bytes decode to some FileHeader all the same)           *)

\* a page of bytes that are no node
ForeignPage == [tag |-> 83, len |-> PAGE_SIZE - 8, complete |-> FALSE, node |-> new_leaf]

ForeignFiles ==
    {[exists |-> TRUE, hdr |-> [magic |-> "SQLi", total_pages |-> 1, root_page |-> 0],
      pages |-> <<>>, dirty |-> FALSE],
     [exists |-> TRUE, hdr |-> [magic |-> "SQLi", total_pages |-> 2, root_page |-> 1],
      pages |-> <<ForeignPage>>, dirty |-> FALSE]}

\* the data directory before the process opens <TREE_TABLE>.db
OpenInit ==
    \E file \in ForeignFiles \cup {Tree_sync(Prefilled(n)).file : n \in {0, PrefillCount}} :
       /\ files = [t \in Tables |-> IF t = TREE_TABLE THEN file ELSE NoFile]
       /\ btrees = [t \in Tables |-> Closed]
       /\ tables = [t \in Tables |-> [present |-> FALSE, rows |-> <<>>]]
       /\ clock = 0
       /\ shadow = EmptyMap
       /\ last = [op |-> "start"]
       /\ OthersIdle

\* BPlusTree::open(data_dir, TREE_TABLE): Err leaves no tree
TreeOpen ==
    LET r == BPlusTree_open(files[TREE_TABLE])
    IN /\ ~btrees[TREE_TABLE].open
       /\ files' = [files EXCEPT ![TREE_TABLE] = r.file]
       /\ btrees' = [btrees EXCEPT ![TREE_TABLE] = IF r.err THEN Closed ELSE Mem(r)]
       /\ last' = [op |-> "open", ok |-> ~r.err, before |-> files[TREE_TABLE]]
       /\ UNCHANGED <<tables, clock, shadow, rest>>

OpenNext ==
    \/ TreeOpen
    \/ \E k \in TreeKeys, v \in TreeValues : TreeInsert(k, v)
    \/ \E k \in TreeKeys : TreeGet(k)
    \/ TreeCount

SpecOpen == OpenInit /\ [][OpenNext]_vars

-----------------------------------------------------------------------------
(* The tree under a run of inserts of ascending keys, as a table that is    *)
(* only appended to drives it: key after key is larger than all before      *)

\* the key the next insert of the run carries
NextKey == TreeKey(Cardinality(DOMAIN shadow) + PrefillCount + 1)

AppendInsert ==
    /\ Cardinality(DOMAIN shadow) < PrefillCount + MaxAppend
    /\ TreeInsert(NextKey, PrefillValue)

AppendNext ==
    \/ AppendInsert
    \/ \E k \in TreeKeys : TreeGet(k)
    \/ TreeCount
    \/ TreeSync
    \/ TreeReopen

SpecAppend == TreeInit /\ [][AppendNext]_vars

-----------------------------------------------------------------------------
(* The SQL front end of src/db/sql/parser.rs. A text is a sequence of
   characters (one-character strings), so that the tokenizer, the parser and
   the pretty printer work on what is written, character by character. *)
LowerCase == <<"a", "b", "c", "d", "e", "f", "g", "h", "i", "j", "k", "l", "m", "n", "o", "p", "q", "r", "s", "t", "u", "v", "w", "x", "y", "z">>

UpperCase == <<"A", "B", "C", "D", "E", "F", "G", "H", "I", "J", "K", "L", "M", "N", "O", "P", "Q", "R", "S", "T", "U", "V", "W", "X", "Y", "Z">>

DigitChars == <<"0", "1", "2", "3", "4", "5", "6", "7", "8", "9">>

CharsOf(s) == {s[i] : i \in DOMAIN s}

is_alphabetic(ch) == ch \in CharsOf(LowerCase) \cup CharsOf(UpperCase)

is_ascii_digit(ch) == ch \in CharsOf(DigitChars)

is_alphanumeric(ch) == is_alphabetic(ch) \/ is_ascii_digit(ch)

is_whitespace(ch) == ch \in {" ", "\n", "\t", "\r"}

UpperChar(ch) ==
    IF ch \in CharsOf(LowerCase)
    THEN UpperCase[CHOOSE i \in DOMAIN LowerCase : LowerCase[i] = ch]
    ELSE ch

LowerChar(ch) ==
    IF ch \in CharsOf(UpperCase)
    THEN LowerCase[CHOOSE i \in DOMAIN UpperCase : UpperCase[i] = ch]
    ELSE ch

to_uppercase(s) == [i \in DOMAIN s |-> UpperChar(s[i])]

to_lowercase(s) == [i \in DOMAIN s |-> LowerChar(s[i])]

(* The value of Then on the one element of values: the element is computed
   once, before Then looks at it *)
With(values, Then(_)) == CHOOSE v \in {Then(r) : r \in values} : TRUE

(* A token: its variant and, for the variants that carry one, its text *)
Token(kind, text) == [kind |-> kind, text |-> text]

Keyword(kind) == Token(kind, <<>>)

Eof == Keyword("Eof")

keywords ==
    {
       [word |-> <<"S", "E", "L", "E", "C", "T">>, token |-> Keyword("Select")],
       [word |-> <<"I", "N", "S", "E", "R", "T">>, token |-> Keyword("Insert")],
       [word |-> <<"U", "P", "D", "A", "T", "E">>, token |-> Keyword("Update")],
       [word |-> <<"D", "E", "L", "E", "T", "E">>, token |-> Keyword("Delete")],
       [word |-> <<"F", "R", "O", "M">>, token |-> Keyword("From")],
       [word |-> <<"W", "H", "E", "R", "E">>, token |-> Keyword("Where")],
       [word |-> <<"J", "O", "I", "N">>, token |-> Keyword("Join")],
       [word |-> <<"I", "N", "N", "E", "R">>, token |-> Keyword("Inner")],
       [word |-> <<"L", "E", "F", "T">>, token |-> Keyword("Left")],
       [word |-> <<"R", "I", "G", "H", "T">>, token |-> Keyword("Right")],
       [word |-> <<"F", "U", "L", "L">>, token |-> Keyword("Full")],
       [word |-> <<"O", "U", "T", "E", "R">>, token |-> Keyword("Outer")],
       [word |-> <<"O", "N">>, token |-> Keyword("On")],
       [word |-> <<"G", "R", "O", "U", "P">>, token |-> Keyword("Group")],
       [word |-> <<"B", "Y">>, token |-> Keyword("By")],
       [word |-> <<"O", "R", "D", "E", "R">>, token |-> Keyword("Order")],
       [word |-> <<"H", "A", "V", "I", "N", "G">>, token |-> Keyword("Having")],
       [word |-> <<"L", "I", "M", "I", "T">>, token |-> Keyword("Limit")],
       [word |-> <<"O", "F", "F", "S", "E", "T">>, token |-> Keyword("Offset")],
       [word |-> <<"I", "N", "T", "O">>, token |-> Keyword("Into")],
       [word |-> <<"V", "A", "L", "U", "E", "S">>, token |-> Keyword("Values")],
       [word |-> <<"S", "E", "T">>, token |-> Keyword("Set")],
       [word |-> <<"C", "R", "E", "A", "T", "E">>, token |-> Keyword("Create")],
       [word |-> <<"T", "A", "B", "L", "E">>, token |-> Keyword("Table")],
       [word |-> <<"D", "A", "T", "A", "B", "A", "S", "E">>, token |-> Keyword("Database")],
       [word |-> <<"I", "N", "D", "E", "X">>, token |-> Keyword("Index")],
       [word |-> <<"D", "R", "O", "P">>, token |-> Keyword("Drop")],
       [word |-> <<"A", "L", "T", "E", "R">>, token |-> Keyword("Alter")],
       [word |-> <<"A", "D", "D">>, token |-> Keyword("Add")],
       [word |-> <<"C", "O", "L", "U", "M", "N">>, token |-> Keyword("Column")],
       [word |-> <<"P", "R", "I", "M", "A", "R", "Y">>, token |-> Keyword("Primary")],
       [word |-> <<"K", "E", "Y">>, token |-> Keyword("Key")],
       [word |-> <<"F", "O", "R", "E", "I", "G", "N">>, token |-> Keyword("Foreign")],
       [word |-> <<"R", "E", "F", "E", "R", "E", "N", "C", "E", "S">>, token |-> Keyword("References")],
       [word |-> <<"U", "N", "I", "Q", "U", "E">>, token |-> Keyword("Unique")],
       [word |-> <<"N", "O", "T">>, token |-> Keyword("Not")],
       [word |-> <<"N", "U", "L", "L">>, token |-> Keyword("Null")],
       [word |-> <<"A", "U", "T", "O">>, token |-> Keyword("Auto")],
       [word |-> <<"I", "N", "C", "R", "E", "M", "E", "N", "T">>, token |-> Keyword("Increment")],
       [word |-> <<"D", "E", "F", "A", "U", "L", "T">>, token |-> Keyword("Default")],
       [word |-> <<"C", "H", "E", "C", "K">>, token |-> Keyword("Check")],
       [word |-> <<"U", "N", "I", "O", "N">>, token |-> Keyword("Union")],
       [word |-> <<"A", "L", "L">>, token |-> Keyword("All")],
       [word |-> <<"D", "I", "S", "T", "I", "N", "C", "T">>, token |-> Keyword("Distinct")],
       [word |-> <<"A", "S">>, token |-> Keyword("As")],
       [word |-> <<"I", "N">>, token |-> Keyword("In")],
       [word |-> <<"E", "X", "I", "S", "T", "S">>, token |-> Keyword("Exists")],
       [word |-> <<"B", "E", "T", "W", "E", "E", "N">>, token |-> Keyword("Between")],
       [word |-> <<"L", "I", "K", "E">>, token |-> Keyword("Like")],
       [word |-> <<"I", "S">>, token |-> Keyword("Is")],
       [word |-> <<"A", "N", "D">>, token |-> Keyword("And")],
       [word |-> <<"O", "R">>, token |-> Keyword("Or")],
       [word |-> <<"C", "A", "S", "E">>, token |-> Keyword("Case")],
       [word |-> <<"W", "H", "E", "N">>, token |-> Keyword("When")],
       [word |-> <<"T", "H", "E", "N">>, token |-> Keyword("Then")],
       [word |-> <<"E", "L", "S", "E">>, token |-> Keyword("Else")],
       [word |-> <<"E", "N", "D">>, token |-> Keyword("End")],
       [word |-> <<"I", "F">>, token |-> Keyword("If")],
       [word |-> <<"B", "E", "G", "I", "N">>, token |-> Keyword("Begin")],
       [word |-> <<"C", "O", "M", "M", "I", "T">>, token |-> Keyword("Commit")],
       [word |-> <<"R", "O", "L", "L", "B", "A", "C", "K">>, token |-> Keyword("Rollback")],
       [word |-> <<"T", "R", "A", "N", "S", "A", "C", "T", "I", "O", "N">>, token |-> Keyword("Transaction")],
       [word |-> <<"I", "N", "T", "E", "G", "E", "R">>, token |-> Keyword("Integer")],
       [word |-> <<"I", "N", "T">>, token |-> Keyword("Integer")],
       [word |-> <<"V", "A", "R", "C", "H", "A", "R">>, token |-> Keyword("Varchar")],
       [word |-> <<"T", "E", "X", "T">>, token |-> Keyword("Text")],
       [word |-> <<"B", "O", "O", "L", "E", "A", "N">>, token |-> Keyword("Boolean")],
       [word |-> <<"B", "O", "O", "L">>, token |-> Keyword("Boolean")],
       [word |-> <<"F", "L", "O", "A", "T">>, token |-> Keyword("Float")],
       [word |-> <<"D", "O", "U", "B", "L", "E">>, token |-> Keyword("Double")],
       [word |-> <<"D", "A", "T", "E">>, token |-> Keyword("Date")],
       [word |-> <<"D", "A", "T", "E", "T", "I", "M", "E">>, token |-> Keyword("DateTime")],
       [word |-> <<"T", "I", "M", "E", "S", "T", "A", "M", "P">>, token |-> Keyword("Timestamp")],
       [word |-> <<"T", "R", "U", "E">>, token |-> Token("BooleanLiteral", <<"t", "r", "u", "e">>)],
       [word |-> <<"F", "A", "L", "S", "E">>, token |-> Token("BooleanLiteral", <<"f", "a", "l", "s", "e">>)]
    }

(* The character at a position, NoChar past the end of the input *)
NoChar == ""

peek(input, position) ==
    IF position <= Len(input) THEN input[position] ELSE NoChar

RECURSIVE skip_whitespace(_, _)
skip_whitespace(input, position) ==
    IF is_whitespace(peek(input, position))
    THEN skip_whitespace(input, position + 1)
    ELSE position

RECURSIVE read_identifier(_, _, _)
read_identifier(input, position, identifier) ==
    LET ch == peek(input, position) IN
    IF is_alphanumeric(ch) \/ ch = "_"
    THEN read_identifier(input, position + 1, Append(identifier, ch))
    ELSE [value |-> identifier, position |-> position]

Unescaped(escaped) ==
    CASE escaped = "n" -> <<"\n">>
      [] escaped = "t" -> <<"\t">>
      [] escaped = "r" -> <<"\r">>
      [] escaped \in {"\\", "'", "\""} -> <<escaped>>
      [] OTHER -> <<"\\", escaped>>

(* position is after the opening quote *)
RECURSIVE read_string_literal(_, _, _, _)
read_string_literal(input, position, quote_char, value) ==
    LET ch == peek(input, position) IN
    IF ch = NoChar
    THEN [ok |-> FALSE, value |-> <<>>, position |-> position]
    ELSE IF ch = quote_char
    THEN [ok |-> TRUE, value |-> value, position |-> position + 1]
    ELSE IF ch = "\\"
    THEN IF peek(input, position + 1) = NoChar
         THEN read_string_literal(input, position + 1, quote_char, value)
         ELSE read_string_literal(input, position + 2, quote_char,
                                  value \o Unescaped(peek(input, position + 1)))
    ELSE read_string_literal(input, position + 1, quote_char, Append(value, ch))

RECURSIVE read_number_literal(_, _, _, _)
read_number_literal(input, position, number, has_dot) ==
    LET ch == peek(input, position) IN
    IF is_ascii_digit(ch)
    THEN read_number_literal(input, position + 1, Append(number, ch), has_dot)
    ELSE IF ch = "." /\ ~has_dot
    THEN read_number_literal(input, position + 1, Append(number, ch), TRUE)
    ELSE [value |-> number, position |-> position]

RECURSIVE LineEnd(_, _)
LineEnd(input, position) ==
    IF peek(input, position) \in {NoChar, "\n"}
    THEN position
    ELSE LineEnd(input, position + 1)

RECURSIVE CommentEnd(_, _)
CommentEnd(input, position) ==
    IF peek(input, position) = NoChar
    THEN position
    ELSE IF peek(input, position) = "*" /\ peek(input, position + 1) = "/"
    THEN position + 2
    ELSE CommentEnd(input, position + 1)

(* The position after a comment that starts at position *)
read_comment(input, position) ==
    IF peek(input, position) = "-" /\ peek(input, position + 1) = "-"
    THEN LineEnd(input, position + 2)
    ELSE IF peek(input, position) = "/" /\ peek(input, position + 1) = "*"
    THEN CommentEnd(input, position + 2)
    ELSE position

Punctuation ==
    {[ch |-> "(", kind |-> "LeftParen"], [ch |-> ")", kind |-> "RightParen"],
     [ch |-> ",", kind |-> "Comma"], [ch |-> ";", kind |-> "Semicolon"],
     [ch |-> ".", kind |-> "Dot"], [ch |-> "*", kind |-> "Star"],
     [ch |-> "=", kind |-> "Equals"], [ch |-> "+", kind |-> "Plus"],
     [ch |-> "%", kind |-> "Modulo"]}

Lexed(token, position) == [ok |-> TRUE, token |-> token, position |-> position]

LexError(position) == [ok |-> FALSE, token |-> Eof, position |-> position]

(* The token that starts with ch at position, next being the character after *)
TokenAt(input, position, ch, next) ==
    CASE ch = NoChar -> Lexed(Eof, position)
      [] \E p \in Punctuation : p.ch = ch ->
            Lexed(Keyword((CHOOSE p \in Punctuation : p.ch = ch).kind), position + 1)
      [] ch = "<" ->
            IF next = "=" THEN Lexed(Keyword("LessThanOrEqual"), position + 2)
            ELSE IF next = ">" THEN Lexed(Keyword("NotEquals"), position + 2)
            ELSE Lexed(Keyword("LessThan"), position + 1)
      [] ch = ">" ->
            IF next = "=" THEN Lexed(Keyword("GreaterThanOrEqual"), position + 2)
            ELSE Lexed(Keyword("GreaterThan"), position + 1)
      [] ch = "!" ->
            IF next = "=" THEN Lexed(Keyword("NotEquals"), position + 2)
            ELSE LexError(position + 1)
      [] ch = "-" ->
            IF next = "-" THEN Lexed(Keyword("Comment"), read_comment(input, position))
            ELSE Lexed(Keyword("Minus"), position + 1)
      [] ch = "/" ->
            IF next = "*" THEN Lexed(Keyword("Comment"), read_comment(input, position))
            ELSE Lexed(Keyword("Divide"), position + 1)
      [] ch \in {"'", "\""} ->
            With({read_string_literal(input, position + 1, ch, <<>>)}, LAMBDA r :
                IF r.ok THEN Lexed(Token("StringLiteral", r.value), r.position)
                ELSE LexError(r.position))
      [] is_ascii_digit(ch) ->
            With({read_number_literal(input, position, <<>>, FALSE)}, LAMBDA r :
                Lexed(Token("NumberLiteral", r.value), r.position))
      [] is_alphabetic(ch) \/ ch = "_" ->
            With({read_identifier(input, position, <<>>)}, LAMBDA r :
            With({to_uppercase(r.value)}, LAMBDA upper_identifier :
                IF \E k \in keywords : k.word = upper_identifier
                THEN Lexed((CHOOSE k \in keywords : k.word = upper_identifier).token,
                           r.position)
                ELSE Lexed(Token("Identifier", r.value), r.position)))
      [] OTHER -> LexError(position)

next_token(input, start) ==
    With({skip_whitespace(input, start)}, LAMBDA position :
        With({peek(input, position)}, LAMBDA ch :
            With({peek(input, position + 1)}, LAMBDA next :
                TokenAt(input, position, ch, next))))

(* The tokens from a position on, comments dropped: the list ends with Eof,
   or with LexFailed where the tokenizer fails *)
LexFailed == Keyword("LexFailed")

RECURSIVE TokensFrom(_, _)
TokensFrom(input, position) ==
    With({next_token(input, position)}, LAMBDA r :
        IF r.ok /\ r.token # Eof
        THEN (IF r.token.kind = "Comment" THEN <<>> ELSE <<r.token>>)
                \o TokensFrom(input, r.position)
        ELSE <<IF r.ok THEN Eof ELSE LexFailed>>)

tokenize(input) ==
    With({TokensFrom(input, 1)}, LAMBDA tokens :
        IF tokens[Len(tokens)] = Eof
        THEN [ok |-> TRUE, tokens |-> tokens]
        ELSE [ok |-> FALSE, tokens |-> <<>>])

(* --- Parser: the statement and expression trees (src/db/sql/constants.rs,
   src/db/sql/parser.rs). An Option is a sequence of length 0 or 1. --- *)
NoneOf == <<>>

SomeOf(x) == <<x>>

Literal(literal, text) == [kind |-> "Literal", literal |-> literal, text |-> text]

Identifier(name) == [kind |-> "Identifier", name |-> name]

BinaryOp(left, operator, right) ==
    [kind |-> "BinaryOp", left |-> left, operator |-> operator, right |-> right]

UnaryOp(operator, operand) ==
    [kind |-> "UnaryOp", operator |-> operator, operand |-> operand]

Function(name, args) == [kind |-> "Function", name |-> name, args |-> args]

QualifiedColumn(table, column) ==
    [kind |-> "QualifiedColumn", table |-> table, column |-> column]

Alias(expr, alias) == [kind |-> "Alias", expr |-> expr, alias |-> alias]

Subquery(query) == [kind |-> "Subquery", query |-> query]

TableReference(name, alias) == [kind |-> "Table", name |-> name, alias |-> alias]

SubqueryReference(query, alias) ==
    [kind |-> "Subquery", query |-> query, alias |-> alias]

OrderBy(expression, direction) ==
    [expression |-> expression, direction |-> direction]

Assignment(column, value) == [column |-> column, value |-> value]

Select(projection, from, where_clause, group_by, having, order_by, limit,
       offset, distinct) ==
    [kind |-> "Select", projection |-> projection, from |-> from,
     joins |-> <<>>, where_clause |-> where_clause, group_by |-> group_by,
     having |-> having, order_by |-> order_by, limit |-> limit,
     offset |-> offset, distinct |-> distinct]

Insert(table, columns, values) ==
    [kind |-> "Insert", table |-> table, columns |-> columns, values |-> values]

Update(table, assignments, where_clause) ==
    [kind |-> "Update", table |-> table, assignments |-> assignments,
     where_clause |-> where_clause]

Delete(table, where_clause) ==
    [kind |-> "Delete", table |-> table, where_clause |-> where_clause]

(* A parsing step: the value parsed and the position of the next token *)
Parsed(value, position) == [ok |-> TRUE, value |-> value, position |-> position]

ParseError(position) == [ok |-> FALSE, value |-> <<>>, position |-> position]

Parser_peek(tokens, position) ==
    IF position <= Len(tokens) THEN tokens[position] ELSE Eof

Peeks(tokens, position, kind) == Parser_peek(tokens, position).kind = kind

is_keyword(token) ==
    token.kind \in
    {"Select", "Insert", "Update", "Delete", "From", "Where", "Join",
     "Inner", "Left", "Right", "Full", "Outer", "On", "Group", "By",
     "Having", "Order", "Limit", "Offset", "And", "Or", "Not", "In", "Is",
     "Like", "Between", "Null", "As", "Create", "Drop", "Alter", "Table",
     "Database", "Index", "Primary", "Key", "Foreign", "References",
     "Unique", "Default", "Values", "Set", "Into", "Begin", "Commit",
     "Rollback", "Distinct", "All", "Union", "Case", "When", "Then",
     "Else", "End", "If", "Exists"}

(* str::parse::<u64> of a number literal: digits only, as a sequence of one
   Option holding the value *)
RECURSIVE DecimalValue(_, _)
DecimalValue(digits, acc) ==
    IF digits = <<>> THEN acc
    ELSE DecimalValue(Tail(digits),
                      10 * acc + (CHOOSE i \in DOMAIN DigitChars : DigitChars[i] = Head(digits)) - 1)

parse_u64(n) ==
    IF n # <<>> /\ \A i \in DOMAIN n : is_ascii_digit(n[i])
    THEN SomeOf(DecimalValue(n, 0))
    ELSE NoneOf

RECURSIVE parse_statement(_, _)
RECURSIVE parse_or_expression(_, _)
RECURSIVE parse_and_expression(_, _)
RECURSIVE parse_equality_expression(_, _)
RECURSIVE parse_comparison_expression(_, _)
RECURSIVE parse_additive_expression(_, _)
RECURSIVE parse_multiplicative_expression(_, _)
RECURSIVE parse_unary_expression(_, _)
RECURSIVE parse_primary_expression(_, _)
RECURSIVE parse_expression_list(_, _)

parse_expression(tokens, position) == parse_or_expression(tokens, position)

RECURSIVE ExpressionListRest(_, _, _)
ExpressionListRest(tokens, position, expressions) ==
    With({parse_expression(tokens, position)}, LAMBDA r :
        IF ~r.ok THEN r
        ELSE IF Peeks(tokens, r.position, "Comma")
        THEN ExpressionListRest(tokens, r.position + 1, Append(expressions, r.value))
        ELSE Parsed(Append(expressions, r.value), r.position))

parse_expression_list(tokens, position) ==
    ExpressionListRest(tokens, position, <<>>)

(* A chain of operands of one precedence level: pending is empty before the
   first operand, and afterwards holds the expression so far and the operator
   that follows it *)
NoPending == <<>>

Pending(left, operator) == <<[left |-> left, operator |-> operator]>>

Combined(pending, right) ==
    IF Len(pending) = 0 THEN right
    ELSE BinaryOp(pending[1].left, pending[1].operator, right)

RECURSIVE OrRest(_, _, _)
OrRest(tokens, position, pending) ==
    With({parse_and_expression(tokens, position)}, LAMBDA r :
        IF ~r.ok THEN r
        ELSE IF Peeks(tokens, r.position, "Or")
        THEN OrRest(tokens, r.position + 1, Pending(Combined(pending, r.value), "Or"))
        ELSE Parsed(Combined(pending, r.value), r.position))

parse_or_expression(tokens, position) == OrRest(tokens, position, NoPending)

RECURSIVE AndRest(_, _, _)
AndRest(tokens, position, pending) ==
    With({parse_equality_expression(tokens, position)}, LAMBDA r :
        IF ~r.ok THEN r
        ELSE IF Peeks(tokens, r.position, "And")
        THEN AndRest(tokens, r.position + 1, Pending(Combined(pending, r.value), "And"))
        ELSE Parsed(Combined(pending, r.value), r.position))

parse_and_expression(tokens, position) == AndRest(tokens, position, NoPending)

match_equality_operator(token) == token.kind \in {"Equals", "NotEquals"}

match_comparison_operator(token) ==
    token.kind \in {"LessThan", "LessThanOrEqual", "GreaterThan",
                    "GreaterThanOrEqual", "Like", "In", "Between"}

match_additive_operator(token) == token.kind \in {"Plus", "Minus"}

match_multiplicative_operator(token) ==
    token.kind \in {"Star", "Divide", "Modulo"}

(* The operator of an operator token: the tokenizer's Star is Multiply *)
OperatorOf(token) == IF token.kind = "Star" THEN "Multiply" ELSE token.kind

RECURSIVE EqualityRest(_, _, _)
EqualityRest(tokens, position, pending) ==
    With({parse_comparison_expression(tokens, position)}, LAMBDA r :
        IF ~r.ok THEN r
        ELSE IF match_equality_operator(Parser_peek(tokens, r.position))
        THEN EqualityRest(tokens, r.position + 1,
                          Pending(Combined(pending, r.value),
                                  OperatorOf(Parser_peek(tokens, r.position))))
        ELSE Parsed(Combined(pending, r.value), r.position))

parse_equality_expression(tokens, position) == EqualityRest(tokens, position, NoPending)

(* BETWEEN low AND high becomes left >= low AND left <= high *)
ParseBetween(tokens, position, left) ==
    With({parse_additive_expression(tokens, position + 1)}, LAMBDA low :
        IF ~low.ok THEN low
        ELSE IF ~Peeks(tokens, low.position, "And") THEN ParseError(low.position)
        ELSE With({parse_additive_expression(tokens, low.position + 1)}, LAMBDA high :
                IF ~high.ok THEN high
                ELSE Parsed(BinaryOp(BinaryOp(left, "GreaterThanOrEqual", low.value),
                                     "And",
                                     BinaryOp(left, "LessThanOrEqual", high.value)),
                            high.position)))

(* IN ( subquery ) or IN ( value list ), the list as the function IN_LIST *)
ParseIn(tokens, position, left) ==
    IF ~Peeks(tokens, position + 1, "LeftParen") THEN ParseError(position + 1)
    ELSE With({IF Peeks(tokens, position + 2, "Select")
               THEN parse_statement(tokens, position + 2)
               ELSE parse_expression_list(tokens, position + 2)}, LAMBDA r :
            IF ~r.ok THEN r
            ELSE IF ~Peeks(tokens, r.position, "RightParen") THEN ParseError(r.position)
            ELSE IF Peeks(tokens, position + 2, "Select")
            THEN Parsed(BinaryOp(left, "In", Subquery(r.value)), r.position + 1)
            ELSE Parsed(BinaryOp(left, "In", Function(<<"I", "N", "_", "L", "I", "S", "T">>, r.value)),
                        r.position + 1))

ParseComparison(tokens, position, left, operator) ==
    With({parse_additive_expression(tokens, position + 1)}, LAMBDA right :
        IF ~right.ok THEN right
        ELSE Parsed(BinaryOp(left, operator, right.value), right.position))

RECURSIVE ComparisonRest(_, _, _)
ComparisonRest(tokens, position, left) ==
    IF match_comparison_operator(Parser_peek(tokens, position))
    THEN With({Parser_peek(tokens, position).kind}, LAMBDA op :
         With({CASE op = "Between" -> ParseBetween(tokens, position, left)
                 [] op = "In" -> ParseIn(tokens, position, left)
                 [] OTHER -> ParseComparison(tokens, position, left, op)}, LAMBDA r :
            IF ~r.ok THEN r ELSE ComparisonRest(tokens, r.position, r.value)))
    ELSE Parsed(left, position)

parse_comparison_expression(tokens, position) ==
    With({parse_additive_expression(tokens, position)}, LAMBDA l :
        IF ~l.ok THEN l ELSE ComparisonRest(tokens, l.position, l.value))

RECURSIVE AdditiveRest(_, _, _)
AdditiveRest(tokens, position, pending) ==
    With({parse_multiplicative_expression(tokens, position)}, LAMBDA r :
        IF ~r.ok THEN r
        ELSE IF match_additive_operator(Parser_peek(tokens, r.position))
        THEN AdditiveRest(tokens, r.position + 1,
                          Pending(Combined(pending, r.value),
                                  OperatorOf(Parser_peek(tokens, r.position))))
        ELSE Parsed(Combined(pending, r.value), r.position))

parse_additive_expression(tokens, position) == AdditiveRest(tokens, position, NoPending)

RECURSIVE MultiplicativeRest(_, _, _)
MultiplicativeRest(tokens, position, pending) ==
    With({parse_unary_expression(tokens, position)}, LAMBDA r :
        IF ~r.ok THEN r
        ELSE IF match_multiplicative_operator(Parser_peek(tokens, r.position))
        THEN MultiplicativeRest(tokens, r.position + 1,
                                Pending(Combined(pending, r.value),
                                        OperatorOf(Parser_peek(tokens, r.position))))
        ELSE Parsed(Combined(pending, r.value), r.position))

parse_multiplicative_expression(tokens, position) ==
    MultiplicativeRest(tokens, position, NoPending)

parse_unary_expression(tokens, position) ==
    IF Parser_peek(tokens, position).kind \in {"Not", "Minus", "Plus"}
    THEN With({parse_unary_expression(tokens, position + 1)}, LAMBDA operand :
            IF ~operand.ok THEN operand
            ELSE Parsed(UnaryOp(Parser_peek(tokens, position).kind, operand.value),
                        operand.position))
    ELSE parse_primary_expression(tokens, position)

(* After an identifier: a function call, a qualified column or a column *)
ParseIdentifier(tokens, position, name) ==
    IF Peeks(tokens, position, "LeftParen")
    THEN With({IF Peeks(tokens, position + 1, "RightParen")
               THEN Parsed(<<>>, position + 1)
               ELSE parse_expression_list(tokens, position + 1)}, LAMBDA args :
            IF ~args.ok THEN args
            ELSE IF ~Peeks(tokens, args.position, "RightParen")
            THEN ParseError(args.position)
            ELSE Parsed(Function(name, args.value), args.position + 1))
    ELSE IF Peeks(tokens, position, "Dot")
    THEN IF Peeks(tokens, position + 1, "Identifier")
         THEN Parsed(QualifiedColumn(name, Parser_peek(tokens, position + 1).text),
                     position + 2)
         ELSE ParseError(position + 2)
    ELSE Parsed(Identifier(name), position)

(* ( subquery ) or ( expression ) *)
ParseParenthesized(tokens, position) ==
    With({IF Peeks(tokens, position + 1, "Select")
          THEN parse_statement(tokens, position + 1)
          ELSE parse_expression(tokens, position + 1)}, LAMBDA r :
        IF ~r.ok THEN r
        ELSE IF ~Peeks(tokens, r.position, "RightParen") THEN ParseError(r.position)
        ELSE IF Peeks(tokens, position + 1, "Select")
        THEN Parsed(Subquery(r.value), r.position + 1)
        ELSE Parsed(r.value, r.position + 1))

(* CASE expressions are left out: no text of the model spells CASE *)
parse_primary_expression(tokens, position) ==
    With({Parser_peek(tokens, position)}, LAMBDA token :
        CASE token.kind = "StringLiteral" ->
                Parsed(Literal("String", token.text), position + 1)
          [] token.kind = "NumberLiteral" ->
                Parsed(Literal("Number", token.text), position + 1)
          [] token.kind = "BooleanLiteral" ->
                Parsed(Literal("Boolean", token.text), position + 1)
          [] token.kind = "Null" -> Parsed(Literal("Null", <<>>), position + 1)
          [] token.kind = "Identifier" -> ParseIdentifier(tokens, position + 1, token.text)
          [] token.kind = "LeftParen" -> ParseParenthesized(tokens, position)
          [] OTHER -> ParseError(position))

(* AS alias or an identifier right after the expression *)
ParseAlias(tokens, position, expr) ==
    IF Peeks(tokens, position, "As")
    THEN IF Peeks(tokens, position + 1, "Identifier")
         THEN Parsed(Alias(expr, Parser_peek(tokens, position + 1).text), position + 2)
         ELSE ParseError(position + 2)
    ELSE IF Peeks(tokens, position, "Identifier")
            /\ ~is_keyword(Parser_peek(tokens, position))
    THEN Parsed(Alias(expr, Parser_peek(tokens, position).text), position + 1)
    ELSE Parsed(expr, position)

RECURSIVE ProjectionRest(_, _, _)
ProjectionRest(tokens, position, projection) ==
    With({IF Peeks(tokens, position, "Star")
          THEN Parsed(Identifier(<<"*">>), position + 1)
          ELSE parse_expression(tokens, position)}, LAMBDA e :
    With({IF e.ok THEN ParseAlias(tokens, e.position, e.value) ELSE e}, LAMBDA r :
        IF ~r.ok THEN r
        ELSE IF Peeks(tokens, r.position, "Comma")
        THEN ProjectionRest(tokens, r.position + 1, Append(projection, r.value))
        ELSE Parsed(Append(projection, r.value), r.position)))

parse_projection(tokens, position) == ProjectionRest(tokens, position, <<>>)

(* The optional alias of a table: AS alias or an identifier *)
TableAlias(tokens, position) ==
    IF Peeks(tokens, position, "As")
    THEN IF Peeks(tokens, position + 1, "Identifier")
         THEN Parsed(SomeOf(Parser_peek(tokens, position + 1).text), position + 2)
         ELSE ParseError(position + 2)
    ELSE IF Peeks(tokens, position, "Identifier")
            /\ ~is_keyword(Parser_peek(tokens, position))
    THEN Parsed(SomeOf(Parser_peek(tokens, position).text), position + 1)
    ELSE Parsed(NoneOf, position)

parse_table_reference(tokens, position) ==
    IF Peeks(tokens, position, "LeftParen")
    THEN With({parse_statement(tokens, position + 1)}, LAMBDA query :
            IF ~query.ok THEN query
            ELSE IF ~Peeks(tokens, query.position, "RightParen")
            THEN ParseError(query.position)
            ELSE With({TableAlias(tokens, query.position + 1)}, LAMBDA alias :
                    IF ~alias.ok \/ alias.value = NoneOf THEN ParseError(alias.position)
                    ELSE Parsed(SubqueryReference(query.value, alias.value[1]),
                                alias.position)))
    ELSE IF Peeks(tokens, position, "Identifier")
    THEN With({TableAlias(tokens, position + 1)}, LAMBDA alias :
            IF ~alias.ok THEN alias
            ELSE Parsed(TableReference(Parser_peek(tokens, position).text, alias.value),
                        alias.position))
    ELSE ParseError(position + 1)

(* ASC and DESC are identifiers to the tokenizer *)
Direction(token) ==
    IF token.kind = "Identifier" /\ to_uppercase(token.text) = <<"D", "E", "S", "C">> THEN "Desc"
    ELSE "Asc"

Directed(token) ==
    token.kind = "Identifier" /\ to_uppercase(token.text) \in {<<"A", "S", "C">>, <<"D", "E", "S", "C">>}

RECURSIVE OrderByRest(_, _, _)
OrderByRest(tokens, position, order_by) ==
    With({parse_expression(tokens, position)}, LAMBDA e :
        IF ~e.ok THEN e
        ELSE With({Parser_peek(tokens, e.position)}, LAMBDA dir :
             With({IF Directed(dir) THEN e.position + 1 ELSE e.position}, LAMBDA next :
                IF Peeks(tokens, next, "Comma")
                THEN OrderByRest(tokens, next + 1,
                                 Append(order_by, OrderBy(e.value, Direction(dir))))
                ELSE Parsed(Append(order_by, OrderBy(e.value, Direction(dir))), next))))

parse_order_by_list(tokens, position) == OrderByRest(tokens, position, <<>>)

(* An optional clause: the keyword and an expression, NoneOf without the
   keyword *)
OptionalExpression(tokens, position, keyword) ==
    IF Peeks(tokens, position, keyword)
    THEN With({parse_expression(tokens, position + 1)}, LAMBDA r :
            IF ~r.ok THEN r ELSE Parsed(SomeOf(r.value), r.position))
    ELSE Parsed(NoneOf, position)

(* LIMIT n and OFFSET n *)
OptionalNumber(tokens, position, keyword) ==
    IF Peeks(tokens, position, keyword)
    THEN IF Peeks(tokens, position + 1, "NumberLiteral")
            /\ parse_u64(Parser_peek(tokens, position + 1).text) # NoneOf
         THEN Parsed(parse_u64(Parser_peek(tokens, position + 1).text), position + 2)
         ELSE ParseError(position + 2)
    ELSE Parsed(NoneOf, position)

(* GROUP BY list and ORDER BY list *)
OptionalList(tokens, position, keyword) ==
    IF Peeks(tokens, position, keyword)
    THEN IF ~Peeks(tokens, position + 1, "By") THEN ParseError(position + 1)
         ELSE IF keyword = "Group"
         THEN parse_expression_list(tokens, position + 2)
         ELSE parse_order_by_list(tokens, position + 2)
    ELSE Parsed(<<>>, position)

FromClause(tokens, position) ==
    IF Peeks(tokens, position, "From")
    THEN With({parse_table_reference(tokens, position + 1)}, LAMBDA t :
            IF ~t.ok THEN t ELSE Parsed(SomeOf(t.value), t.position))
    ELSE Parsed(NoneOf, position)

Join(join_type, table, condition) ==
    [join_type |-> join_type, table |-> table, condition |-> condition]

is_join_keyword(token) == token.kind \in {"Join", "Inner", "Left", "Right", "Full"}

(* The join type and the position after the JOIN keyword: JOIN, INNER JOIN,
   and LEFT, RIGHT and FULL with an optional OUTER *)
JoinType(tokens, position) ==
    With({Parser_peek(tokens, position).kind}, LAMBDA kind :
        IF kind = "Join" THEN Parsed("Inner", position + 1)
        ELSE IF kind = "Inner"
        THEN IF Peeks(tokens, position + 1, "Join") THEN Parsed("Inner", position + 2)
             ELSE ParseError(position + 1)
        ELSE IF kind \in {"Left", "Right", "Full"}
        THEN With({IF Peeks(tokens, position + 1, "Outer") THEN position + 2
                   ELSE position + 1}, LAMBDA at :
                IF Peeks(tokens, at, "Join") THEN Parsed(kind, at + 1)
                ELSE ParseError(at))
        ELSE ParseError(position))

parse_join(tokens, position) ==
    With({JoinType(tokens, position)}, LAMBDA join_type :
    IF ~join_type.ok THEN join_type ELSE
    With({parse_table_reference(tokens, join_type.position)}, LAMBDA table :
    IF ~table.ok THEN table ELSE
    With({OptionalExpression(tokens, table.position, "On")}, LAMBDA condition :
    IF ~condition.ok THEN condition ELSE
    Parsed(Join(join_type.value, table.value, condition.value), condition.position))))

(* while self.is_join_keyword() { joins.push(self.parse_join()?); } *)
RECURSIVE JoinsRest(_, _, _)
JoinsRest(tokens, position, joins) ==
    IF ~is_join_keyword(Parser_peek(tokens, position)) THEN Parsed(joins, position)
    ELSE With({parse_join(tokens, position)}, LAMBDA join :
            IF ~join.ok THEN join
            ELSE JoinsRest(tokens, join.position, Append(joins, join.value)))

parse_select(tokens, position) ==
    With({Peeks(tokens, position + 1, "Distinct")}, LAMBDA distinct :
    With({parse_projection(tokens, IF distinct THEN position + 2 ELSE position + 1)},
         LAMBDA projection :
    IF ~projection.ok THEN projection ELSE
    With({FromClause(tokens, projection.position)}, LAMBDA from :
    IF ~from.ok THEN from ELSE
    With({JoinsRest(tokens, from.position, <<>>)}, LAMBDA joins :
    IF ~joins.ok THEN joins ELSE
    With({OptionalExpression(tokens, joins.position, "Where")}, LAMBDA where_clause :
    IF ~where_clause.ok THEN where_clause ELSE
    With({OptionalList(tokens, where_clause.position, "Group")}, LAMBDA group_by :
    IF ~group_by.ok THEN group_by ELSE
    With({OptionalExpression(tokens, group_by.position, "Having")}, LAMBDA having :
    IF ~having.ok THEN having ELSE
    With({OptionalList(tokens, having.position, "Order")}, LAMBDA order_by :
    IF ~order_by.ok THEN order_by ELSE
    With({OptionalNumber(tokens, order_by.position, "Limit")}, LAMBDA limit :
    IF ~limit.ok THEN limit ELSE
    With({OptionalNumber(tokens, limit.position, "Offset")}, LAMBDA offset :
    IF ~offset.ok THEN offset ELSE
    Parsed([Select(projection.value, from.value, where_clause.value,
                   group_by.value, having.value, order_by.value, limit.value,
                   offset.value, distinct) EXCEPT !.joins = joins.value],
           offset.position)))))))))))

RECURSIVE ColumnListRest(_, _, _)
ColumnListRest(tokens, position, cols) ==
    IF ~Peeks(tokens, position, "Identifier") THEN ParseError(position + 1)
    ELSE With({Append(cols, Parser_peek(tokens, position).text)}, LAMBDA more :
            IF Peeks(tokens, position + 1, "Comma")
            THEN ColumnListRest(tokens, position + 2, more)
            ELSE IF Peeks(tokens, position + 1, "RightParen")
            THEN Parsed(SomeOf(more), position + 2)
            ELSE ParseError(position + 1))

RECURSIVE ValuesRest(_, _, _)
ValuesRest(tokens, position, values) ==
    IF ~Peeks(tokens, position, "LeftParen") THEN ParseError(position)
    ELSE With({parse_expression_list(tokens, position + 1)}, LAMBDA row_values :
            IF ~row_values.ok THEN row_values
            ELSE IF ~Peeks(tokens, row_values.position, "RightParen")
            THEN ParseError(row_values.position)
            ELSE IF Peeks(tokens, row_values.position + 1, "Comma")
            THEN ValuesRest(tokens, row_values.position + 2,
                            Append(values, row_values.value))
            ELSE Parsed(Append(values, row_values.value), row_values.position + 1))

parse_insert(tokens, position) ==
    IF ~Peeks(tokens, position + 1, "Into") THEN ParseError(position + 1)
    ELSE IF ~Peeks(tokens, position + 2, "Identifier") THEN ParseError(position + 3)
    ELSE With({IF Peeks(tokens, position + 3, "LeftParen")
               THEN ColumnListRest(tokens, position + 4, <<>>)
               ELSE Parsed(NoneOf, position + 3)}, LAMBDA columns :
            IF ~columns.ok THEN columns
            ELSE IF ~Peeks(tokens, columns.position, "Values")
            THEN ParseError(columns.position)
            ELSE With({ValuesRest(tokens, columns.position + 1, <<>>)}, LAMBDA values :
                    IF ~values.ok THEN values
                    ELSE Parsed(Insert(Parser_peek(tokens, position + 2).text,
                                       columns.value, values.value),
                                values.position)))

RECURSIVE AssignmentsRest(_, _, _)
AssignmentsRest(tokens, position, assignments) ==
    IF ~Peeks(tokens, position, "Identifier") THEN ParseError(position + 1)
    ELSE IF ~Peeks(tokens, position + 1, "Equals") THEN ParseError(position + 1)
    ELSE With({parse_expression(tokens, position + 2)}, LAMBDA value :
            IF ~value.ok THEN value
            ELSE With({Append(assignments,
                              Assignment(Parser_peek(tokens, position).text, value.value))},
                      LAMBDA more :
                    IF Peeks(tokens, value.position, "Comma")
                    THEN AssignmentsRest(tokens, value.position + 1, more)
                    ELSE Parsed(more, value.position)))

parse_update(tokens, position) ==
    IF ~Peeks(tokens, position + 1, "Identifier") THEN ParseError(position + 2)
    ELSE IF ~Peeks(tokens, position + 2, "Set") THEN ParseError(position + 2)
    ELSE With({AssignmentsRest(tokens, position + 3, <<>>)}, LAMBDA assignments :
            IF ~assignments.ok THEN assignments
            ELSE With({OptionalExpression(tokens, assignments.position, "Where")},
                      LAMBDA where_clause :
                    IF ~where_clause.ok THEN where_clause
                    ELSE Parsed(Update(Parser_peek(tokens, position + 1).text,
                                       assignments.value, where_clause.value),
                                where_clause.position)))

parse_delete(tokens, position) ==
    IF ~Peeks(tokens, position + 1, "From") THEN ParseError(position + 1)
    ELSE IF ~Peeks(tokens, position + 2, "Identifier") THEN ParseError(position + 3)
    ELSE With({OptionalExpression(tokens, position + 3, "Where")}, LAMBDA where_clause :
            IF ~where_clause.ok THEN where_clause
            ELSE Parsed(Delete(Parser_peek(tokens, position + 2).text, where_clause.value),
                        where_clause.position))

DropTable(name, if_exists) ==
    [kind |-> "DropTable", name |-> name, if_exists |-> if_exists]

DropDatabase(name, if_exists) ==
    [kind |-> "DropDatabase", name |-> name, if_exists |-> if_exists]

(* DROP TABLE [IF EXISTS] name and DROP DATABASE [IF EXISTS] name *)
parse_drop(tokens, position) ==
    IF ~Peeks(tokens, position + 1, "Table") /\ ~Peeks(tokens, position + 1, "Database")
    THEN ParseError(position + 1)
    ELSE With({IF Peeks(tokens, position + 2, "If") THEN position + 4 ELSE position + 2},
              LAMBDA at :
            IF Peeks(tokens, position + 2, "If") /\ ~Peeks(tokens, position + 3, "Exists")
            THEN ParseError(position + 3)
            ELSE IF ~Peeks(tokens, at, "Identifier") THEN ParseError(at + 1)
            ELSE Parsed(IF Peeks(tokens, position + 1, "Table")
                        THEN DropTable(Parser_peek(tokens, at).text, at # position + 2)
                        ELSE DropDatabase(Parser_peek(tokens, at).text, at # position + 2),
                        at + 1))

(* The CREATE, ALTER and transaction statements are parsed by code this
   model leaves out: no text of the model starts with their keywords *)
parse_statement(tokens, position) ==
    With({Parser_peek(tokens, position).kind}, LAMBDA kind :
        CASE kind = "Select" -> parse_select(tokens, position)
          [] kind = "Insert" -> parse_insert(tokens, position)
          [] kind = "Update" -> parse_update(tokens, position)
          [] kind = "Delete" -> parse_delete(tokens, position)
          [] kind = "Drop" -> parse_drop(tokens, position)
          [] OTHER -> ParseError(position))

(* Statements, each followed by an optional semicolon, up to Eof *)
RECURSIVE StatementsRest(_, _, _)
StatementsRest(tokens, position, statements) ==
    IF Peeks(tokens, position, "Eof")
    THEN [ok |-> TRUE, statements |-> statements]
    ELSE With({parse_statement(tokens, position)}, LAMBDA r :
            IF ~r.ok THEN [ok |-> FALSE, statements |-> <<>>]
            ELSE StatementsRest(tokens,
                                IF Peeks(tokens, r.position, "Semicolon")
                                THEN r.position + 1 ELSE r.position,
                                Append(statements, r.value)))

parse_statements(tokens) == StatementsRest(tokens, 1, <<>>)

(* SqlParser::parse: the statements of a text, or an error *)
SqlParser_parse(input) ==
    With({tokenize(input)}, LAMBDA lexed :
        IF ~lexed.ok THEN [ok |-> FALSE, statements |-> <<>>]
        ELSE parse_statements(lexed.tokens))

(* --- SqlPrettyPrinter: the text of a statement --- *)
RECURSIVE JoinTexts(_, _)
JoinTexts(texts, separator) ==
    IF texts = <<>> THEN <<>>
    ELSE IF Len(texts) = 1 THEN texts[1]
    ELSE texts[1] \o separator \o JoinTexts(Tail(texts), separator)

(* format!("{}", n) of an unsigned number *)
RECURSIVE DecimalText(_)
DecimalText(n) ==
    IF n < 10 THEN <<DigitChars[n + 1]>>
    ELSE Append(DecimalText(n \div 10), DigitChars[(n % 10) + 1])

BinaryOperatorText(operator) ==
    CASE operator = "Equals" -> <<"=">>
      [] operator = "NotEquals" -> <<"<", ">">>
      [] operator = "LessThan" -> <<"<">>
      [] operator = "LessThanOrEqual" -> <<"<", "=">>
      [] operator = "GreaterThan" -> <<">">>
      [] operator = "GreaterThanOrEqual" -> <<">", "=">>
      [] operator = "Plus" -> <<"+">>
      [] operator = "Minus" -> <<"-">>
      [] operator = "Multiply" -> <<"*">>
      [] operator = "Divide" -> <<"/">>
      [] operator = "Modulo" -> <<"%">>
      [] operator = "And" -> <<"A", "N", "D">>
      [] operator = "Or" -> <<"O", "R">>
      [] operator = "Like" -> <<"L", "I", "K", "E">>
      [] operator = "In" -> <<"I", "N">>
      [] operator = "Between" -> <<"B", "E", "T", "W", "E", "E", "N">>

UnaryOperatorText(operator) ==
    CASE operator = "Not" -> <<"N", "O", "T">>
      [] operator = "Minus" -> <<"-">>
      [] operator = "Plus" -> <<"+">>

QuotedBare(s) == <<"'">> \o s \o <<"'">>

(* Alias, Case and Subquery are printed in Rust's debug format, which this
   model leaves out: the statements of the model hold none of them *)
RECURSIVE print_expression(_)
print_expression(expr) ==
    CASE expr.kind = "Literal" ->
            (CASE expr.literal = "String" -> QuotedBare(expr.text)
               [] expr.literal = "Number" -> expr.text
               [] expr.literal = "Boolean" -> to_uppercase(expr.text)
               [] expr.literal = "Null" -> <<"N", "U", "L", "L">>)
      [] expr.kind = "Identifier" -> expr.name
      [] expr.kind = "QualifiedColumn" -> expr.table \o <<".">> \o expr.column
      [] expr.kind = "BinaryOp" ->
            <<"(">> \o print_expression(expr.left) \o <<" ">>
                \o BinaryOperatorText(expr.operator) \o <<" ">>
                \o print_expression(expr.right) \o <<")">>
      [] expr.kind = "UnaryOp" ->
            UnaryOperatorText(expr.operator) \o <<" ">> \o print_expression(expr.operand)
      [] expr.kind = "Function" ->
            expr.name \o <<"(">>
                \o JoinTexts([i \in DOMAIN expr.args |-> print_expression(expr.args[i])], <<",", " ">>)
                \o <<")">>
      [] OTHER -> <<"{", ":", "?", "}">>

print_table_reference(table_ref) ==
    IF table_ref.alias # NoneOf
    THEN table_ref.name \o <<" ", "A", "S", " ">> \o table_ref.alias[1]
    ELSE table_ref.name

indent == <<" ", " ">>

PrintWhere(where_clause) ==
    IF where_clause # NoneOf
    THEN <<"\n", "W", "H", "E", "R", "E", " ">> \o print_expression(where_clause[1])
    ELSE <<>>

PrintOrder(order) ==
    print_expression(order.expression)
        \o (IF order.direction = "Desc" THEN <<" ", "D", "E", "S", "C">> ELSE <<>>)

PrintSelect(stmt) ==
    <<"S", "E", "L", "E", "C", "T">>
    \o (IF stmt.distinct THEN <<" ", "D", "I", "S", "T", "I", "N", "C", "T">> ELSE <<>>)
    \o <<"\n">>
    \o JoinTexts([i \in DOMAIN stmt.projection |->
                    indent \o print_expression(stmt.projection[i])], <<",", "\n">>)
    \o (IF stmt.from # NoneOf
        THEN <<"\n", "F", "R", "O", "M", " ">> \o print_table_reference(stmt.from[1]) ELSE <<>>)
    \o PrintWhere(stmt.where_clause)
    \o (IF stmt.group_by # <<>>
        THEN <<"\n", "G", "R", "O", "U", "P", " ", "B", "Y", " ">>
             \o JoinTexts([i \in DOMAIN stmt.group_by |->
                             print_expression(stmt.group_by[i])], <<",", " ">>)
        ELSE <<>>)
    \o (IF stmt.having # NoneOf
        THEN <<"\n", "H", "A", "V", "I", "N", "G", " ">> \o print_expression(stmt.having[1]) ELSE <<>>)
    \o (IF stmt.order_by # <<>>
        THEN <<"\n", "O", "R", "D", "E", "R", " ", "B", "Y", " ">>
             \o JoinTexts([i \in DOMAIN stmt.order_by |-> PrintOrder(stmt.order_by[i])], <<",", " ">>)
        ELSE <<>>)
    \o (IF stmt.limit # NoneOf THEN <<"\n", "L", "I", "M", "I", "T", " ">> \o DecimalText(stmt.limit[1]) ELSE <<>>)
    \o (IF stmt.offset # NoneOf THEN <<"\n", "O", "F", "F", "S", "E", "T", " ">> \o DecimalText(stmt.offset[1]) ELSE <<>>)

PrintRow(row) ==
    <<"(">> \o JoinTexts([j \in DOMAIN row |-> print_expression(row[j])], <<",", " ">>) \o <<")">>

PrintInsert(stmt) ==
    <<"I", "N", "S", "E", "R", "T", " ", "I", "N", "T", "O", " ">> \o stmt.table
    \o (IF stmt.columns # NoneOf
        THEN <<" ", "(">> \o JoinTexts(stmt.columns[1], <<",", " ">>) \o <<")">> ELSE <<>>)
    \o <<"\n", "V", "A", "L", "U", "E", "S", " ">>
    \o JoinTexts([i \in DOMAIN stmt.values |-> PrintRow(stmt.values[i])], <<",", "\n", " ", " ", " ", " ", " ", " ", " ">>)

PrintAssignment(assignment) ==
    assignment.column \o <<" ", "=", " ">> \o print_expression(assignment.value)

PrintUpdate(stmt) ==
    <<"U", "P", "D", "A", "T", "E", " ">> \o stmt.table \o <<"\n", "S", "E", "T", " ">>
    \o JoinTexts([i \in DOMAIN stmt.assignments |->
                    PrintAssignment(stmt.assignments[i])], <<",", "\n", " ", " ", " ", " ">>)
    \o PrintWhere(stmt.where_clause)

PrintDelete(stmt) ==
    <<"D", "E", "L", "E", "T", "E", " ", "F", "R", "O", "M", " ">> \o stmt.table \o PrintWhere(stmt.where_clause)

print_statement(stmt) ==
    CASE stmt.kind = "Select" -> PrintSelect(stmt)
      [] stmt.kind = "Insert" -> PrintInsert(stmt)
      [] stmt.kind = "Update" -> PrintUpdate(stmt)
      [] stmt.kind = "Delete" -> PrintDelete(stmt)

(* --- Printing what was parsed: a client writes a text, SqlParser::parse
   gives its statements, SqlPrettyPrinter prints one of them and the printed
   text is parsed again. --- *)
ValueTexts ==
    {<<"1">>, <<"'", "x", "'">>, <<"\"", "i", "t", "'", "s", "\"">>, <<"'", "a", "\\", "n", "b", "'">>, <<"a", " ", "+", " ", "1">>, <<"-", " ", "a">>, <<"f", "(", "a", ",", " ", "2", ")">>, <<"t", "1", ".", "a">>, <<"N", "U", "L", "L">>,
     <<"T", "R", "U", "E">>, <<"a", " ", "*", " ", "(", "b", " ", "-", " ", "1", ")">>}

ConditionTexts ==
    {<<"a", " ", "=", " ", "1">>, <<"a", " ", "<", ">", " ", "'", "x", "'", " ", "A", "N", "D", " ", "b", " ", "<", " ", "2">>, <<"N", "O", "T", " ", "a", " ", ">", "=", " ", "1", " ", "O", "R", " ", "b", " ", "<", "=", " ", "2">>, <<"a", " ", "I", "N", " ", "(", "1", ",", " ", "2", ")">>,
     <<"a", " ", "B", "E", "T", "W", "E", "E", "N", " ", "1", " ", "A", "N", "D", " ", "2">>, <<"a", " ", "L", "I", "K", "E", " ", "'", "x", "%", "'">>, <<"a", " ", "%", " ", "2", " ", "=", " ", "0">>, <<"a", " ", "/", " ", "2", " ", ">", " ", "1">>}

SelectTexts ==
    {<<"S", "E", "L", "E", "C", "T", " ">> \o e \o <<" ", "F", "R", "O", "M", " ", "t", "1">> : e \in ValueTexts}
    \cup {<<"s", "e", "l", "e", "c", "t", " ", "a", ",", " ", "b", " ", "f", "r", "o", "m", " ", "t", "1", " ", "t", " ", "w", "h", "e", "r", "e", " ">> \o c : c \in ConditionTexts}
    \cup {<<"S", "E", "L", "E", "C", "T", " ", "*", " ", "F", "R", "O", "M", " ", "t", "1">>, <<"S", "E", "L", "E", "C", "T", " ", "D", "I", "S", "T", "I", "N", "C", "T", " ", "a", ",", " ", "c", "o", "u", "n", "t", "(", "b", ")", " ", "F", "R", "O", "M", " ", "t", "1", " ", "A", "S", " ", "t">>,
          <<"S", "E", "L", "E", "C", "T", " ", "a", " ", "F", "R", "O", "M", " ", "t", "1", " ", "G", "R", "O", "U", "P", " ", "B", "Y", " ", "a", " ", "H", "A", "V", "I", "N", "G", " ", "a", " ", "<", " ", "9">>,
          <<"S", "E", "L", "E", "C", "T", " ", "a", " ", "F", "R", "O", "M", " ", "t", "1", " ", "O", "R", "D", "E", "R", " ", "B", "Y", " ", "a", " ", "D", "E", "S", "C", ",", " ", "b", " ", "L", "I", "M", "I", "T", " ", "1", "0", " ", "O", "F", "F", "S", "E", "T", " ", "2", ";">>,
          <<"S", "E", "L", "E", "C", "T", " ", "1", " ", "-", "-", " ", "o", "n", "e", "\n", ";", " ", "S", "E", "L", "E", "C", "T", " ", "2">>}

InsertTexts ==
    {<<"I", "N", "S", "E", "R", "T", " ", "I", "N", "T", "O", " ", "t", "1", " ", "(", "v", ")", " ", "V", "A", "L", "U", "E", "S", " ", "(">> \o e \o <<")", ",", " ", "(", "3", ")">> : e \in ValueTexts}
    \cup {<<"I", "N", "S", "E", "R", "T", " ", "I", "N", "T", "O", " ", "t", "1", " ", "V", "A", "L", "U", "E", "S", " ", "(", "1", ")">>, <<"I", "N", "S", "E", "R", "T", " ", "I", "N", "T", "O", " ", "t", "1", " ", "(", "i", "d", ",", " ", "v", ")", " ", "V", "A", "L", "U", "E", "S", " ", "(", "1", ",", " ", "2", ")">>}

UpdateTexts ==
    {<<"U", "P", "D", "A", "T", "E", " ", "t", "1", " ", "S", "E", "T", " ", "v", " ", "=", " ">> \o e \o <<" ", "W", "H", "E", "R", "E", " ">> \o c :
        e \in ValueTexts, c \in ConditionTexts}
    \cup {<<"U", "P", "D", "A", "T", "E", " ", "t", "1", " ", "S", "E", "T", " ", "v", " ", "=", " ", "1", ",", " ", "w", " ", "=", " ", "2">>}

DeleteTexts ==
    {<<"D", "E", "L", "E", "T", "E", " ", "F", "R", "O", "M", " ", "t", "1", " ", "W", "H", "E", "R", "E", " ">> \o c : c \in ConditionTexts}
    \cup {<<"D", "E", "L", "E", "T", "E", " ", "F", "R", "O", "M", " ", "t", "1">>, <<"D", "E", "L", "E", "T", "E", " ", "t", "1">>, <<"D", "E", "L", "E", "T", "E", " ", "F", "R", "O", "M", " ", "t", "1", " ", "W", "H", "E", "R", "E", " ", "a", " ", "=", " ", "'", "x">>}

SourceTexts == SelectTexts \cup InsertTexts \cup UpdateTexts \cup DeleteTexts

PrintInit ==
    /\ \E input \in SourceTexts : last = [op |-> "written", input |-> input]
    /\ OthersIdle /\ StoreIdle

\* SqlParser::parse on the text the client wrote
ParseSource ==
    /\ last.op = "written"
    /\ last' = [op |-> "parsed", input |-> last.input,
                result |-> SqlParser_parse(last.input)]
    /\ UNCHANGED <<store, rest>>

\* print_statement on one of the statements the parser produced
PrintStatement ==
    /\ last.op = "parsed"
    /\ last.result.ok
    /\ \E i \in DOMAIN last.result.statements :
          last' = [op |-> "printed", stmt |-> last.result.statements[i],
                   text |-> print_statement(last.result.statements[i])]
    /\ UNCHANGED <<store, rest>>

\* SqlParser::parse on the printed text
ParsePrinted ==
    /\ last.op = "printed"
    /\ last' = [op |-> "reparsed", stmt |-> last.stmt, text |-> last.text,
                result |-> SqlParser_parse(last.text)]
    /\ UNCHANGED <<store, rest>>

PrintNext == ParseSource \/ PrintStatement \/ ParsePrinted

SpecPrint == PrintInit /\ [][PrintNext]_vars

-----------------------------------------------------------------------------
(* The executor on parsed statements: SELECT (executor/mod.rs, sql/mod.rs). *)
(* The parser's names are texts and the storage's names are strings: a map  *)
(* is looked up under the string the text spells.  A JSON value is          *)
(* [json, k, d, text]; a result row maps the texts of its columns to JSON   *)

\* the names the tables and rows of the storage hold, written as texts; a
\* HashMap finds a key only in the spelling it was inserted with
NameTexts ==
    {[name |-> "t1", text |-> <<"t", "1">>], [name |-> "t2", text |-> <<"t", "2">>],
     [name |-> "id", text |-> <<"i", "d">>], [name |-> "v", text |-> <<"v">>],
     \* the columns a join gives to the cells of its right-hand table
     [name |-> "t1_id", text |-> <<"t", "1", "_", "i", "d">>],
     [name |-> "t1_v", text |-> <<"t", "1", "_", "v">>],
     [name |-> "t2_id", text |-> <<"t", "2", "_", "i", "d">>],
     [name |-> "t2_v", text |-> <<"t", "2", "_", "v">>]}

\* a name that is the key of no map
NoName == "?"

NameOf(text) ==
    IF \E n \in NameTexts : n.text = text
    THEN (CHOOSE n \in NameTexts : n.text = text).name
    ELSE NoName

TextOf(name) == (CHOOSE n \in NameTexts : n.name = name).text

\* Value::Text
Text(s) == [kind |-> "Text", k |-> 0, d |-> 0, text |-> s]

\* the Value of a cell of a stored row
CellValue(cell) == Integer(I64(0, cell))

\* Value::from_literal; the number literals are decimal numbers below 2^62
\* or hold a dot or letters, and those that hold a dot are left out
from_literal(lit) ==
    CASE lit.literal = "Null" -> Null
      [] lit.literal = "Boolean" -> Boolean(lit.text = <<"t", "r", "u", "e">>)
      [] lit.literal = "String" -> Text(lit.text)
      [] lit.literal = "Number" ->
            IF parse_u64(lit.text) # NoneOf
            THEN Integer(I64(0, parse_u64(lit.text)[1]))
            ELSE Text(lit.text)

\* #[derive(PartialEq)] on Value
Value_eq(l, r) ==
    /\ l.kind = r.kind
    /\ l.k = r.k
    /\ l.d = r.d
    /\ l.kind = "Text" => l.text = r.text

\* the place of a character among the digits and letters, which ASCII
\* orders in this way
CharOrder(ch) ==
    CHOOSE i \in 0..62 :
        \/ i > 0 /\ (DigitChars \o UpperCase \o LowerCase)[i] = ch
        \/ i = 0 /\ \A j \in 1..62 : (DigitChars \o UpperCase \o LowerCase)[j] # ch

\* a < b on two strings of digits and letters
RECURSIVE TextLess(_, _)
TextLess(a, b) ==
    IF b = <<>> THEN FALSE
    ELSE IF a = <<>> THEN TRUE
    ELSE IF Head(a) = Head(b) THEN TextLess(Tail(a), Tail(b))
    ELSE CharOrder(Head(a)) < CharOrder(Head(b))

ValueLess(a, b) ==
    IF a.kind = "Text" THEN TextLess(a.text, b.text)
    ELSE a.k < b.k \/ (a.k = b.k /\ a.d < b.d)

\* Executor::compare
compare(left, right) ==
    IF left.kind = right.kind /\ left.kind \in {"Integer", "Float", "Text"}
    THEN IF ValueLess(left, right) THEN -1
         ELSE IF ValueLess(right, left) THEN 1
         ELSE 0
    ELSE 0

\* Executor::match_like, for a pattern of digits, letters, % and _
RECURSIVE match_like(_, _)
match_like(text, pattern) ==
    IF pattern = <<>> THEN text = <<>>
    ELSE IF Head(pattern) = "%"
         THEN \/ match_like(text, Tail(pattern))
              \/ text # <<>> /\ match_like(Tail(text), pattern)
    ELSE /\ text # <<>>
         /\ Head(pattern) \in {"_", Head(text)}
         /\ match_like(Tail(text), Tail(pattern))

\* row.get(name).cloned().unwrap_or(Value::Null)
RowGet(row, name) ==
    IF NameOf(name) \in DOMAIN row THEN CellValue(row[NameOf(name)]) ELSE Null

AggregateNames == {<<"C", "O", "U", "N", "T">>, <<"S", "U", "M">>, <<"A", "V", "G">>, <<"M", "I", "N">>, <<"M", "A", "X">>}

\* Executor::eval_expression.  The integers of this storage are small: no
\* operation on them overflows, and the value of the operation is taken
RECURSIVE eval_expression(_, _, _)
eval_expression(expr, row, build) ==
    CASE expr.kind = "Literal" -> from_literal(expr)
      [] expr.kind = "Identifier" -> RowGet(row, expr.name)
      [] expr.kind = "QualifiedColumn" ->
            IF NameOf(expr.table \o <<"_">> \o expr.column) \in DOMAIN row
            THEN RowGet(row, expr.table \o <<"_">> \o expr.column)
            ELSE RowGet(row, expr.column)
      [] expr.kind = "BinaryOp" ->
            eval_binary_op(eval_expression(expr.left, row, build), expr.operator,
                           eval_expression(expr.right, row, build), build).value
      [] expr.kind = "Function" ->
            With({IF expr.args = <<>> THEN Null
                  ELSE eval_expression(expr.args[1], row, build)}, LAMBDA v :
                CASE to_uppercase(expr.name) \in AggregateNames ->
                        IF expr.args = <<>> THEN Integer(I64(0, 0)) ELSE v
                  [] to_uppercase(expr.name) = <<"U", "P", "P", "E", "R">> ->
                        IF v.kind = "Text" THEN Text(to_uppercase(v.text)) ELSE Null
                  [] to_uppercase(expr.name) = <<"L", "O", "W", "E", "R">> ->
                        IF v.kind = "Text" THEN Text(to_lowercase(v.text)) ELSE Null
                  [] to_uppercase(expr.name) = <<"L", "E", "N", "G", "T", "H">> ->
                        IF v.kind = "Text" THEN Integer(I64(0, Len(v.text))) ELSE Null
                  [] to_uppercase(expr.name) = <<"A", "B", "S">> -> eval_abs(v, build).value
                  [] OTHER -> Null)
      [] expr.kind = "Alias" -> eval_expression(expr.expr, row, build)
      [] OTHER -> Null

\* Executor::eval_condition
RECURSIVE eval_condition(_, _, _)
eval_condition(expr, row, build) ==
    IF expr.kind = "Literal" /\ expr.literal = "Boolean" THEN expr.text = <<"t", "r", "u", "e">>
    ELSE IF expr.kind # "BinaryOp" THEN TRUE
    ELSE With({<<eval_expression(expr.left, row, build),
                 eval_expression(expr.right, row, build)>>}, LAMBDA lr :
            CASE expr.operator = "Equals" -> Value_eq(lr[1], lr[2])
              [] expr.operator = "NotEquals" -> ~Value_eq(lr[1], lr[2])
              [] expr.operator = "LessThan" -> compare(lr[1], lr[2]) < 0
              [] expr.operator = "LessThanOrEqual" -> compare(lr[1], lr[2]) <= 0
              [] expr.operator = "GreaterThan" -> compare(lr[1], lr[2]) > 0
              [] expr.operator = "GreaterThanOrEqual" -> compare(lr[1], lr[2]) >= 0
              [] expr.operator = "And" ->
                    eval_condition(expr.left, row, build)
                        /\ eval_condition(expr.right, row, build)
              [] expr.operator = "Or" ->
                    eval_condition(expr.left, row, build)
                        \/ eval_condition(expr.right, row, build)
              [] expr.operator = "Like" ->
                    /\ lr[1].kind = "Text"
                    /\ lr[2].kind = "Text"
                    /\ match_like(lr[1].text, lr[2].text)
              [] OTHER -> FALSE)

\* Executor::is_aggregate_expr
RECURSIVE is_aggregate_expr(_)
is_aggregate_expr(expr) ==
    CASE expr.kind = "Function" -> to_uppercase(expr.name) \in AggregateNames
      [] expr.kind = "Alias" -> is_aggregate_expr(expr.expr)
      [] OTHER -> FALSE

\* Executor::has_aggregates
has_aggregates(projection) ==
    \E i \in DOMAIN projection : is_aggregate_expr(projection[i])

\* Executor::get_expr_name
get_expr_name(expr, idx) ==
    CASE expr.kind = "Identifier" -> expr.name
      [] expr.kind = "QualifiedColumn" -> expr.column
      [] expr.kind = "Function" ->
            to_lowercase(expr.name) \o <<"(">>
                \o (IF expr.args = <<>> THEN <<"*">>
                    ELSE IF expr.args[1].kind = "Identifier" THEN expr.args[1].name
                    ELSE IF expr.args[1].kind = "QualifiedColumn"
                         THEN expr.args[1].column
                    ELSE <<"*">>)
                \o <<")">>
      [] expr.kind = "Alias" -> expr.alias
      [] OTHER -> <<"c", "o", "l", "u", "m", "n">> \o DecimalText(idx)

\* the values of arg on the rows that are of one of the kinds
ValuesOfKind(arg, rows, kinds, build) ==
    SelectSeq([i \in DOMAIN rows |-> eval_expression(arg, rows[i], build)],
              LAMBDA v : v.kind \in kinds)

\* the sum of the integers of a list
RECURSIVE SumOf(_)
SumOf(values) ==
    IF values = <<>> THEN 0 ELSE values[1].d + SumOf(Tail(values))

\* the value a MIN (sign -1) or MAX (sign 1) loop ends with
RECURSIVE Extreme(_, _, _)
Extreme(values, current, sign) ==
    IF values = <<>> THEN current
    ELSE Extreme(Tail(values),
                 IF current = Null \/ sign * compare(values[1], current) > 0
                 THEN values[1] ELSE current,
                 sign)

\* Executor::eval_aggregate; SUM and AVG are over the integers of this
\* storage, which are small
eval_aggregate(func_name, arg, rows, build) ==
    CASE to_uppercase(func_name) = <<"C", "O", "U", "N", "T">> ->
            IF arg = Identifier(<<"*">>) THEN Integer(I64(0, Len(rows)))
            ELSE Integer(I64(0, Len(ValuesOfKind(arg, rows,
                        {"Integer", "Float", "Text", "Boolean"}, build))))
      [] to_uppercase(func_name) = <<"S", "U", "M">> ->
            Integer(I64(0, SumOf(ValuesOfKind(arg, rows, {"Integer"}, build))))
      [] to_uppercase(func_name) = <<"A", "V", "G">> ->
            With({ValuesOfKind(arg, rows, {"Integer"}, build)}, LAMBDA values :
                IF values = <<>> THEN Null
                ELSE Float(0, (4 * SumOf(values)) \div Len(values)))
      [] to_uppercase(func_name) = <<"M", "I", "N">> ->
            Extreme(ValuesOfKind(arg, rows, {"Integer", "Float", "Text", "Boolean"},
                                 build), Null, -1)
      [] to_uppercase(func_name) = <<"M", "A", "X">> ->
            Extreme(ValuesOfKind(arg, rows, {"Integer", "Float", "Text", "Boolean"},
                                 build), Null, 1)
      [] OTHER -> Null

\* Executor::eval_projection_expr
RECURSIVE eval_projection_expr(_, _, _, _)
eval_projection_expr(expr, rows, idx, build) ==
    IF expr.kind = "Function" /\ is_aggregate_expr(expr)
    THEN [name |-> get_expr_name(expr, idx),
          value |-> eval_aggregate(expr.name,
                                   IF expr.args = <<>> THEN Identifier(<<"*">>)
                                   ELSE expr.args[1],
                                   rows, build)]
    ELSE IF expr.kind = "Alias"
    THEN [name |-> expr.alias,
          value |-> eval_projection_expr(expr.expr, rows, idx, build).value]
    ELSE [name |-> get_expr_name(expr, idx),
          value |-> IF rows = <<>> THEN Null
                    ELSE eval_expression(expr, rows[1], build)]

JsonNull == [json |-> "null", k |-> 0, d |-> 0, text |-> <<>>]
JsonInteger(k, d) == [json |-> "integer", k |-> k, d |-> d, text |-> <<>>]
JsonFloat(k, q) == [json |-> "float", k |-> k, d |-> q, text |-> <<>>]
JsonString(s) == [json |-> "string", k |-> 0, d |-> 0, text |-> s]
JsonBool(b) == [json |-> "bool", k |-> 0, d |-> IF b THEN 1 ELSE 0, text |-> <<>>]

\* Executor::value_to_json
value_to_json(value) ==
    CASE value.kind = "Null" -> JsonNull
      [] value.kind = "Integer" -> JsonInteger(value.k, value.d)
      [] value.kind = "Float" -> JsonFloat(value.k, value.d)
      [] value.kind = "Text" -> JsonString(value.text)
      [] value.kind = "Boolean" -> JsonBool(value.d = 1)

\* ExecutionResult::Rows and ExecutionResult::Error with its message
RowsResult(columns, rows) == [variant |-> "Rows", columns |-> columns, rows |-> rows]
ErrorResult(message) == [variant |-> "Error", message |-> message]

\* result_row.insert(col_name, value) for the named values in turn: a later
\* value of a name replaces an earlier one
ResultRow(named) ==
    [c \in {named[i].name : i \in DOMAIN named} |->
        named[CHOOSE i \in DOMAIN named :
                /\ named[i].name = c
                /\ \A j \in (i + 1)..Len(named) : named[j].name # c].value]

\* the keys of a HashMap in the order its iterator gives them, which is one
\* order of them
RECURSIVE Keys(_)
Keys(names) ==
    IF names = {} THEN <<>>
    ELSE With({CHOOSE c \in names : TRUE}, LAMBDA c : <<c>> \o Keys(names \ {c}))

\* the insertions into result_row that execute_select makes for one row, from
\* projection[i] on: `*` inserts every cell of the row
RECURSIVE Inserted(_, _, _, _)
Inserted(projection, i, row, build) ==
    IF i > Len(projection) THEN <<>>
    ELSE (IF projection[i] = Identifier(<<"*">>)
          THEN [j \in 1..Len(Keys(DOMAIN row)) |->
                   [name |-> TextOf(Keys(DOMAIN row)[j]),
                    value |-> value_to_json(CellValue(row[Keys(DOMAIN row)[j]]))]]
          ELSE <<[name |-> get_expr_name(projection[i], i - 1),
                  value |-> value_to_json(eval_expression(projection[i], row, build))]>>)
         \o Inserted(projection, i + 1, row, build)

\* the result row execute_select builds from one row
ProjectedRow(projection, row, build) == ResultRow(Inserted(projection, 1, row, build))

\* rows.truncate(lim as usize)
Truncated(rows, limit) ==
    IF limit # NoneOf /\ limit[1] < Len(rows) THEN SubSeq(rows, 1, limit[1]) ELSE rows

\* Executor::execute_select of a statement without joins, on the storage st
execute_select(st, projection, from, where_clause, limit, build) ==
    IF from = NoneOf
    THEN RowsResult([i \in DOMAIN projection |-> <<"c", "o", "l", "u", "m", "n">> \o DecimalText(i - 1)],
                    <<[c \in {<<"c", "o", "l", "u", "m", "n">> \o DecimalText(i - 1) : i \in DOMAIN projection} |->
                         value_to_json(eval_expression(
                             projection[CHOOSE i \in DOMAIN projection :
                                            <<"c", "o", "l", "u", "m", "n">> \o DecimalText(i - 1) = c],
                             <<>>, build))]>>)
    ELSE IF from[1].kind = "Subquery" THEN ErrorResult("Subqueries not yet supported")
    ELSE IF NameOf(from[1].name) \notin Tables THEN ErrorResult("Table not found")
    ELSE IF ~st.tables[NameOf(from[1].name)].present THEN ErrorResult("Table not found")
    ELSE With({SelectSeq(st.tables[NameOf(from[1].name)].rows,
                         LAMBDA row : \/ where_clause = NoneOf
                                      \/ eval_condition(where_clause[1], row, build))},
              LAMBDA rows :
        IF has_aggregates(projection)
        THEN With({[i \in DOMAIN projection |->
                       eval_projection_expr(projection[i], rows, i - 1, build)]},
                  LAMBDA named :
                 RowsResult([i \in DOMAIN named |-> named[i].name],
                            <<ResultRow([i \in DOMAIN named |->
                                 [name |-> named[i].name,
                                  value |-> value_to_json(named[i].value)]])>>))
        ELSE With({[i \in DOMAIN Truncated(rows, limit) |->
                       ProjectedRow(projection, Truncated(rows, limit)[i], build)]},
                  LAMBDA result_rows :
                 RowsResult(IF result_rows = <<>> THEN <<>>
                            ELSE IF \E i \in DOMAIN projection :
                                       projection[i] = Identifier(<<"*">>)
                                 THEN Keys(DOMAIN result_rows[1])
                            ELSE [i \in DOMAIN projection |->
                                     get_expr_name(projection[i], i - 1)],
                            result_rows)))

(* --- SELECT with joins (executor/mod.rs, execute_with_joins).  The texts
   of the model spell JOIN and INNER JOIN, once in a statement: the outer
   joins are left out --- *)

\* alias.as_ref().unwrap_or(name)
right_table_name(join) ==
    IF join.table.alias # NoneOf THEN join.table.alias[1] ELSE join.table.name

\* format!("{}_{}", right_table_name, k)
PrefixedName(right, k) == NameOf(right \o <<"_">> \o TextOf(k))

\* merged = left_row.clone(), then merged.insert(prefixed name, v) for the
\* cells of right_row
Merged(left_row, right_row, right) ==
    [k \in DOMAIN left_row \cup {PrefixedName(right, c) : c \in DOMAIN right_row} |->
        IF \E c \in DOMAIN right_row : PrefixedName(right, c) = k
        THEN right_row[CHOOSE c \in DOMAIN right_row : PrefixedName(right, c) = k]
        ELSE left_row[k]]

\* JoinType::Inner | JoinType::Cross: for each left row, for each right row,
\* the merged row is pushed when there is no condition or it holds
InnerJoin(current_rows, right_rows, right, condition, build) ==
    SelectSeq([p \in 1..(Len(current_rows) * Len(right_rows)) |->
                  Merged(current_rows[((p - 1) \div Len(right_rows)) + 1],
                         right_rows[((p - 1) % Len(right_rows)) + 1], right)],
              LAMBDA merged : \/ condition = NoneOf
                              \/ eval_condition(condition[1], merged, build))

\* for join in joins { ... current_rows = new_rows; }, from joins[i] on
RECURSIVE Joined(_, _, _, _, _)
Joined(st, current_rows, joins, i, build) ==
    IF i > Len(joins) THEN [ok |-> TRUE, rows |-> current_rows]
    ELSE IF joins[i].table.kind # "Table"
    THEN [ok |-> FALSE, message |-> "Complex join tables not supported"]
    ELSE With({NameOf(right_table_name(joins[i]))}, LAMBDA right :
        IF right \notin Tables THEN [ok |-> FALSE, message |-> "Table not found"]
        ELSE IF ~st.tables[right].present THEN [ok |-> FALSE, message |-> "Table not found"]
        ELSE CASE joins[i].join_type = "Inner" ->
                    Joined(st, InnerJoin(current_rows, st.tables[right].rows,
                                         right_table_name(joins[i]),
                                         joins[i].condition, build),
                           joins, i + 1, build)
               [] joins[i].join_type = "Full" ->
                    [ok |-> FALSE, message |-> "Join type not supported"])

\* Executor::execute_with_joins.  What it does with the joined rows, from the
\* WHERE clause on, is the code of execute_select again: execute_select is
\* given a storage whose FROM table holds the joined rows
execute_with_joins(st, projection, from, joins, where_clause, limit, build) ==
    IF from = NoneOf THEN ErrorResult("JOIN require a FROM table")
    ELSE IF from[1].kind = "Subquery" THEN ErrorResult("Subqueries not supported in FROM")
    ELSE IF NameOf(from[1].name) \notin Tables THEN ErrorResult("Table not found")
    ELSE IF ~st.tables[NameOf(from[1].name)].present THEN ErrorResult("Table not found")
    ELSE With({Joined(st, st.tables[NameOf(from[1].name)].rows, joins, 1, build)},
              LAMBDA joined :
        IF ~joined.ok THEN ErrorResult(joined.message)
        ELSE execute_select([st EXCEPT !.tables[NameOf(from[1].name)].rows = joined.rows],
                            projection, from, where_clause, limit, build))

\* Executor::execute on a Statement::Select: execute_select hands a statement
\* with joins to execute_with_joins
Executor_select(st, stmt, build) ==
    IF stmt.joins # <<>>
    THEN execute_with_joins(st, stmt.projection, stmt.from, stmt.joins,
                            stmt.where_clause, stmt.limit, build)
    ELSE execute_select(st, stmt.projection, stmt.from, stmt.where_clause,
                        stmt.limit, build)

\* execute_sql on a text whose first statement, when it has one, is a
\* SELECT: SqlParser::parse, then Executor::execute on statements[0]
execute_query(st, query, build) ==
    With({SqlParser_parse(query)}, LAMBDA parsed :
        IF ~parsed.ok THEN ErrorResult("SQL parse error")
        ELSE IF parsed.statements = <<>> THEN ErrorResult("No SQL statements found")
        ELSE Executor_select(st, parsed.statements[1], build))

(* --- A server whose clients create tables, insert rows and query --- *)

\* what stands between SELECT and FROM in the queries
ProjectionTexts ==
    {<<"C", "O", "U", "N", "T", "(", "*", ")">>, <<"c", "o", "u", "n", "t", "(", "*", ")">>, <<"C", "O", "U", "N", "T", "(", "v", ")">>, <<"C", "O", "U", "N", "T", "(", "v", " ", "+", " ", "1", ")">>, <<"C", "O", "U", "N", "T", "(", ")">>,
     <<"S", "U", "M", "(", "v", ")", ",", " ", "M", "I", "N", "(", "i", "d", ")", ",", " ", "M", "A", "X", "(", "i", "d", ")", ",", " ", "A", "V", "G", "(", "i", "d", ")">>, <<"*">>, <<"i", "d", " ", "A", "S", " ", "n", ",", " ", "w">>}

\* the predicates of the queries: every row, id = 1 and v = 2
QueryPreds == {P \in Preds : P.kind = "all" \/ <<P.col, P.val>> \in {<<"id", 1>>, <<"v", 2>>}}

\* what follows the table of a query, for the predicate it stands for
ConditionText(P) ==
    IF P.kind = "all" THEN <<>>
    ELSE <<" ", "W", "H", "E", "R", "E", " ">> \o TextOf(P.col) \o <<" ", "=", " ">> \o DecimalText(P.val)

QueryText(projection, table, P) ==
    <<"S", "E", "L", "E", "C", "T", " ">> \o projection \o <<" ", "F", "R", "O", "M", " ">> \o table \o ConditionText(P)

\* the tables the queries name: t1, which the clients create, and t2, which
\* they never create
QueriedTables == {<<"t", "1">>, <<"t", "2">>}

\* Statement::Insert executed with one row literal, which sets id or both
\* columns
QueryInsert ==
    \E columns \in {Listed(<<"id">>), Listed(<<"id", "v">>)},
       values \in {<<<<1>>>>, <<<<1, 2>>>>, <<<<2, 1>>>>} :
          ExecInsert("t1", columns, values)

\* a client sends a query and execute_sql answers
ExecuteQuery(projection, table, P, build) ==
    /\ last' = [op |-> "execute_sql", projection |-> projection, table |-> table,
                condition |-> P,
                result |-> execute_query(St, QueryText(projection, table, P), build)]
    /\ UNCHANGED <<store, catalog, calls, pool, conn>>

\* a client sends a text that is no statement
ExecuteText(query, build) ==
    /\ last' = [op |-> "execute_text", query |-> query,
                result |-> execute_query(St, query, build)]
    /\ UNCHANGED <<store, catalog, calls, pool, conn>>

QueryNext ==
    \/ ExecCreateTable("t1", "id_v", TRUE)
    \/ QueryInsert
    \/ \E projection \in ProjectionTexts, table \in QueriedTables, P \in QueryPreds,
          build \in Builds : ExecuteQuery(projection, table, P, build)
    \/ \E query \in {<<>>, <<"S", "E", "L", "E", "C", "T">>, <<"S", "E", "L", "E", "C", "T", " ", "1", " ", "+", " ", "1", ",", " ", "'", "x", "'">>}, build \in Builds :
          ExecuteText(query, build)

SpecQuery == ExecInit /\ [][QueryNext]_vars

-----------------------------------------------------------------------------
(* batch_insert driven on the tree of <TREE_TABLE>.db *)

\* the (key, value) lists a batch is called with
BatchLists ==
    UNION {[1..n -> [key : TreeKeys, value : TreeValues]] : n \in 0..MaxBatch}

\* insert on the entries one by one
RECURSIVE InsertEach(_, _, _)
InsertEach(pg, entries, i) ==
    IF pg.err \/ i > Len(entries) THEN pg
    ELSE InsertEach(Tree_insert(pg, entries[i].key, entries[i].value), entries, i + 1)

\* the shadow map after the entries in order
RECURSIVE PutEach(_, _, _)
PutEach(f, entries, i) ==
    IF i > Len(entries) THEN f
    ELSE PutEach(MapPut(f, entries[i].key, entries[i].value), entries, i + 1)

\* the key to value mapping a scan of the tree shows
Mapping(pg) == Tree_scan(pg).ret

TreeBatchInsert(entries) ==
    \E r \in {batch_insert(Pg(TREE_TABLE), entries)},
       e \in {InsertEach(Pg(TREE_TABLE), entries, 1)} :
       /\ btrees[TREE_TABLE].open
       /\ TreeStep(r)
       /\ shadow' = IF r.err THEN shadow ELSE PutEach(shadow, entries, 1)
       /\ last' = [op |-> "batch_insert", entries |-> entries, ok |-> ~r.err,
                   ret |-> r.ret, log |-> r.log, mapping |-> Mapping(r),
                   each_ok |-> ~e.err, each_log |-> e.log,
                   each_mapping |-> Mapping(e)]

BatchNext ==
    \/ \E entries \in BatchLists : TreeBatchInsert(entries)
    \/ \E k \in TreeKeys, v \in TreeValues : TreeInsert(k, v)

SpecBatch == TreeInit /\ [][BatchNext]_vars

-----------------------------------------------------------------------------
(* The pager driven directly on <TREE_TABLE>.db.  `shadow` maps a page to   *)
(* the bytes last written to it and `clock` counts the calls since the      *)
(* start                                                                    *)

\* n calls of allocate_page
RECURSIVE AllocateMany(_, _)
AllocateMany(pg, n) ==
    IF pg.err \/ n = 0 THEN pg
    ELSE IF n = 1 THEN allocate_page(pg)
    ELSE AllocateMany(AllocateMany(pg, n \div 2), n - n \div 2)

\* read_page on the pages first..final in turn
RECURSIVE ReadRange(_, _, _)
ReadRange(pg, first, final) ==
    IF pg.err \/ first > final THEN pg
    ELSE IF first = final THEN read_page(pg, first)
    ELSE ReadRange(ReadRange(pg, first, (first + final) \div 2),
                   (first + final) \div 2 + 1, final)

\* the nodes the pages are written with
PagerNodes ==
    {new_leaf,
     [new_leaf EXCEPT !.entries = <<[key |-> TreeKey(1), value |-> PrefillValue]>>]}

\* the pages the calls name: the first two and the last of a long file
PagerPages == {1, 2, MAX_CACHE_PAGES + 1}

\* a pager that allocated one page more than the cache holds, wrote a leaf to
\* page 1 and then read the next `reads` pages
LongRun(reads) ==
    ReadRange(write_page(AllocateMany(Pager_open(NoFile), MAX_CACHE_PAGES + 1),
                         from_node(1, new_leaf)),
              2, reads + 1)

PagerStart(pg, written) ==
    /\ files = [t \in Tables |-> IF t = TREE_TABLE THEN pg.file ELSE NoFile]
    /\ btrees = [t \in Tables |-> IF t = TREE_TABLE THEN Mem(pg) ELSE Closed]
    /\ tables = [t \in Tables |-> [present |-> FALSE, rows |-> <<>>]]
    /\ clock = 0
    /\ shadow = written
    /\ last = [op |-> "open"]
    /\ OthersIdle

\* a new file, or the long run with page 1 still cached, least recently used
\* or evicted
PagerInit ==
    \/ PagerStart(Pager_open(NoFile), EmptyMap)
    \/ \E reads \in {0, MAX_CACHE_PAGES - 1, MAX_CACHE_PAGES} :
          PagerStart(LongRun(reads),
                     [i \in 1..(MAX_CACHE_PAGES + 1) |->
                         IF i = 1 THEN from_node(1, new_leaf).data
                         ELSE DiskPage_new(i, PT_FREE).data])

PagerStep(r) ==
    /\ clock < MaxCalls
    /\ files' = [files EXCEPT ![TREE_TABLE] = r.file]
    /\ btrees' = [btrees EXCEPT ![TREE_TABLE] = Mem(r)]
    /\ clock' = clock + 1
    /\ UNCHANGED <<tables, rest>>

PagerAllocate ==
    \E r \in {allocate_page(Pg(TREE_TABLE))} :
       /\ PagerStep(r)
       /\ shadow' = IF r.err THEN shadow
                    ELSE MapPut(shadow, r.ret, DiskPage_new(r.ret, PT_FREE).data)
       /\ last' = [op |-> "allocate_page", ok |-> ~r.err, id |-> r.ret]

\* write_page on a page the pager has allocated
PagerWrite(id, node) ==
    /\ id < btrees[TREE_TABLE].header.total_pages
    /\ \E r \in {write_page(Pg(TREE_TABLE), from_node(id, node))} :
       /\ PagerStep(r)
       /\ shadow' = IF r.err THEN shadow ELSE MapPut(shadow, id, from_node(id, node).data)
       /\ last' = [op |-> "write_page", ok |-> ~r.err, id |-> id]

PagerRead(id) ==
    /\ id < btrees[TREE_TABLE].header.total_pages
    /\ \E r \in {read_page(Pg(TREE_TABLE), id)} :
       /\ PagerStep(r)
       /\ last' = [op |-> "read_page", ok |-> ~r.err, id |-> id,
                   data |-> IF r.err THEN DiskPage_new(id, PT_FREE).data ELSE r.ret.data,
                   cached_before |-> CacheContains(btrees[TREE_TABLE].cache, id),
                   full_before |-> Len(btrees[TREE_TABLE].cache) = MAX_CACHE_PAGES]
       /\ UNCHANGED shadow

PagerInvalidate(id) ==
    \E r \in {invalidate(Pg(TREE_TABLE), id)} :
       /\ PagerStep(r)
       /\ last' = [op |-> "invalidate", ok |-> TRUE, id |-> id]
       /\ UNCHANGED shadow

PagerSync ==
    \E r \in {sync(Pg(TREE_TABLE))} :
       /\ PagerStep(r)
       /\ last' = [op |-> "sync", ok |-> ~r.err, id |-> 0]
       /\ UNCHANGED shadow

PagerNext ==
    \/ PagerAllocate
    \/ \E id \in PagerPages, node \in PagerNodes : PagerWrite(id, node)
    \/ \E id \in PagerPages : PagerRead(id)
    \/ \E id \in PagerPages : PagerInvalidate(id)
    \/ PagerSync

SpecPager == PagerInit /\ [][PagerNext]_vars

-----------------------------------------------------------------------------
(* The storage engine over a data directory whose files a process before   *)
(* left: whole, or cut after the header (insert writes pages and header    *)
(* and never syncs, so a power failure keeps any part of them).  read_page *)
(* of a page the file does not hold fails, and with it Tree::insert        *)

\* the file with its pages lost
CutFile(file) == [file EXCEPT !.pages = <<>>]

\* the directories the process starts on: each table's file whole or cut
PersistDirs ==
    LET whole == PrefillStorage(TRUE).files
    IN {[t \in Tables |-> IF t \in cut THEN CutFile(whole[t]) ELSE whole[t]] :
           cut \in SUBSET Tables}

\* Storage::new(data_dir) has returned
PersistInit ==
    \E dir \in PersistDirs :
        \E s0 \in {Storage_new([EmptyStorage EXCEPT !.files = dir])} :
           /\ files = s0.files
           /\ btrees = s0.btrees
           /\ tables = s0.tables
           /\ clock = StartClock
           /\ shadow = EmptyMap
           /\ last = [op |-> "new"]
           /\ OthersIdle

AllRows == [kind |-> "all", col |-> "id", val |-> 0]

\* storage.insert(t, row), with what select(t, None, None) returns before the
\* call and after it
PersistInsert(t, row, tick) ==
    /\ Len(tables[t].rows) < RowBound(t)
    /\ \E r \in {Storage_insert(St, t, row, tick)} :
          /\ StorageStep(r)
          /\ last' = [op |-> "insert", table |-> t, row |-> row, ok |-> ~r.err,
                      select_before |-> Storage_select(St, t, {}, AllRows).ret,
                      select_after |-> Storage_select(r, t, {}, AllRows).ret,
                      present_before |-> tables[t].present]

PersistNext ==
    \/ \E t \in Tables, row \in InputRows, tick \in ClockSteps : PersistInsert(t, row, tick)
    \/ \E t \in Tables, columns \in {{}, {"v"}}, P \in Preds : StorageSelect(t, columns, P)
    \/ \E t \in Tables : StorageDropTable(t)
    \/ StorageRestart

SpecPersist == PersistInit /\ [][PersistNext]_vars

-----------------------------------------------------------------------------
(* Storage calls from several threads with their locks: the table map       *)
(* (RwLock), the tree map (RwLock) and the tree of a table (RwLock, only    *)
(* ever taken for writing).  A caller makes one call; at every position of  *)
(* the call it first takes the lock the code takes there, then runs the     *)
(* code up to the next lock, dropping the guards the code drops             *)

\* the calls of a caller
LockMenu ==
    {[op |-> "get_or_create_table", table |-> t] : t \in Tables}
        \cup {[op |-> "insert", table |-> t, row |-> [id |-> 1]] : t \in Tables}
        \cup {[op |-> "delete", table |-> t, pred |-> P] :
                  t \in Tables, P \in {AllRows, [kind |-> "eq", col |-> "id", val |-> 1]}}
        \cup {[op |-> "update", table |-> t, updates |-> [v |-> 1], pred |-> AllRows] :
                  t \in Tables}
        \cup {[op |-> "select", table |-> t, pred |-> AllRows] : t \in Tables}
        \cup {[op |-> "drop_table", table |-> t] : t \in Tables}

\* the position a call starts at
EntryOf(call) ==
    CASE call.op \in {"get_or_create_table", "insert"} -> "goc"
      [] call.op = "delete" -> "delete"
      [] call.op = "update" -> "update"
      [] call.op = "select" -> "select"
      [] call.op = "drop_table" -> "drop"

\* a mistaken drop_table, which takes the tree map before the table map
WantsTreeMapFirst(call, pc) ==
    CASE pc \in {"goc", "push", "delete", "update", "drop_btrees"} ->
            [lock |-> "tables", mode |-> "w"]
      [] pc = "select" -> [lock |-> "tables", mode |-> "r"]
      [] pc \in {"goc_btree", "insert_btree", "rebuild_btree", "drop"} ->
            [lock |-> "btrees", mode |-> "w"]
      [] pc \in {"insert_tree", "rebuild_tree"} -> [lock |-> call.table, mode |-> "w"]

\* the lock the code takes at a position: self.tables.write() or .read(),
\* self.btrees.write() in get_btree and drop_table, self.inner.write() of the
\* tree of the table
Wants(call, pc) ==
    CASE pc \in {"goc", "push", "delete", "update", "drop"} ->
            [lock |-> "tables", mode |-> "w"]
      [] pc = "select" -> [lock |-> "tables", mode |-> "r"]
      [] pc \in {"goc_btree", "insert_btree", "rebuild_btree", "drop_btrees"} ->
            [lock |-> "btrees", mode |-> "w"]
      [] pc \in {"insert_tree", "rebuild_tree"} -> [lock |-> call.table, mode |-> "w"]

\* before the call; at a position of it, waiting for the lock or holding it;
\* after it.  `detached`: the tree the caller has cloned out of the tree map
\* is no longer in the map and its file no longer in the directory
NoCall == [pc |-> "idle", call |-> [op |-> "none"], waiting |-> FALSE, holds |-> {},
           detached |-> FALSE, todo |-> <<>>, count |-> 0, ok |-> FALSE]

At(c, pc, holds) == [calls[c] EXCEPT !.pc = pc, !.waiting = TRUE, !.holds = holds]

Return(c, ok) == [calls[c] EXCEPT !.pc = "returned", !.waiting = FALSE, !.holds = {},
                                  !.ok = ok]

\* RwLock: a writer excludes everyone, readers exclude writers.  The lock of
\* a tree that was taken out of the map is held by nobody else
Available(c, want) ==
    \/ calls[c].detached /\ want.lock \in Tables
    \/ \A d \in Callers \ {c} :
          \A h \in calls[d].holds :
             h.lock = want.lock =>
                ((h.mode = "r" /\ want.mode = "r")
                    \/ (calls[d].detached /\ want.lock \in Tables))

LocksInit ==
    \E full \in BOOLEAN :
        \E s0 \in {PrefillStorage(full)} :
           /\ files = s0.files
           /\ btrees = s0.btrees
           /\ tables = s0.tables
           /\ clock = StartClock
           /\ shadow = EmptyMap
           /\ last = [op |-> "locks"]
           /\ calls = [c \in Callers |-> NoCall]
           /\ catalog = Idle /\ pool = Idle /\ conn = Idle

\* a thread calls into the storage
StartCall(c, call) ==
    /\ calls[c].pc = "idle"
    /\ calls' = [calls EXCEPT ![c] = [NoCall EXCEPT !.pc = EntryOf(call), !.call = call,
                                                   !.waiting = TRUE]]
    /\ UNCHANGED <<store, last, catalog, pool, conn>>

\* the write() or read() of the position returns its guard
Acquire(c) ==
    /\ calls[c].pc \notin {"idle", "returned"}
    /\ calls[c].waiting
    /\ Available(c, Wants(calls[c].call, calls[c].pc))
    /\ calls' = [calls EXCEPT ![c].waiting = FALSE,
                              ![c].holds = @ \cup {Wants(calls[c].call, calls[c].pc)}]
    /\ UNCHANGED <<store, last, catalog, pool, conn>>

\* the caller runs the code of position pc under its guard
Runs(c, pc) == calls[c].pc = pc /\ ~calls[c].waiting

\* get_or_create_table under tables.write(): the table inserted when it is
\* missing; the guard is kept over get_btree
GocTables(c) ==
    /\ Runs(c, "goc")
    /\ \E t \in {calls[c].call.table} :
          tables' = [tables EXCEPT ![t] = IF @.present THEN @
                                          ELSE [present |-> TRUE, rows |-> <<>>]]
    /\ calls' = [calls EXCEPT ![c] = At(c, "goc_btree", @.holds)]
    /\ UNCHANGED <<files, btrees, clock, shadow, last, catalog, pool, conn>>

\* get_or_create_table: get_btree under btrees.write(), then both guards go;
\* insert goes on to push the row
GocBtree(c) ==
    /\ Runs(c, "goc_btree")
    /\ \E r \in {get_btree(St, calls[c].call.table)} :
          /\ CallStep(r)
          /\ calls' = [calls EXCEPT ![c] =
                  IF ~r.err /\ @.call.op = "insert" THEN At(c, "push", {})
                  ELSE Return(c, ~r.err)]

\* Storage::insert under tables.write(): the row pushed, drop(tables)
PushRow(c) ==
    /\ Runs(c, "push")
    /\ \E r \in {TableData_insert(St, calls[c].call.table, calls[c].call.row)} :
          /\ CallStep(r)
          /\ calls' = [calls EXCEPT ![c] =
                  IF r.err THEN Return(c, FALSE) ELSE At(c, "insert_btree", {})]

\* insert, delete and update: let tree = self.get_btree(table_name)?, a clone
\* of the tree in the map
FetchBtree(c) ==
    /\ calls[c].pc \in {"insert_btree", "rebuild_btree"}
    /\ ~calls[c].waiting
    /\ \E r \in {get_btree(St, calls[c].call.table)} :
          /\ CallStep(r)
          /\ calls' = [calls EXCEPT ![c] =
                  IF r.err THEN Return(c, FALSE)
                  ELSE IF @.pc = "insert_btree" THEN At(c, "insert_tree", {})
                  ELSE IF @.todo = <<>> THEN Return(c, TRUE)
                  ELSE At(c, "rebuild_tree", {})]

\* tree.insert(key, value)? under the write lock of the tree: the one row of
\* insert, or the next row of the loop of delete and update.  A tree that
\* drop_table took away writes to a file that is in no directory
InsertLocked(c) ==
    /\ calls[c].pc \in {"insert_tree", "rebuild_tree"}
    /\ ~calls[c].waiting
    /\ \E row \in {IF calls[c].pc = "insert_tree" THEN calls[c].call.row
                   ELSE Head(calls[c].todo)} :
       \E r \in {IF calls[c].detached THEN [St EXCEPT !.clock = @ + 1]
                 ELSE PersistRow(St, calls[c].call.table, row, 1)} :
          /\ CallStep(r)
          /\ calls' = [calls EXCEPT ![c] =
                  IF r.err THEN Return(c, FALSE)
                  ELSE IF @.pc = "insert_tree" \/ Len(@.todo) = 1 THEN Return(c, TRUE)
                  ELSE [At(c, "rebuild_tree", {}) EXCEPT !.todo = Tail(@)]]

\* Storage::delete under tables.write(): Err for a missing table, Ok(0) when
\* no row went, else drop(tables) with the remaining rows cloned
DeleteSection(c) ==
    /\ Runs(c, "delete")
    /\ \E t \in {calls[c].call.table} :
          IF ~tables[t].present
          THEN /\ calls' = [calls EXCEPT ![c] = Return(c, FALSE)]
               /\ UNCHANGED tables
          ELSE \E kept \in {Retain(tables[t].rows, calls[c].call.pred)} :
                  /\ tables' = [tables EXCEPT ![t].rows = kept]
                  /\ calls' = [calls EXCEPT ![c] =
                          IF Len(tables[t].rows) > Len(kept)
                          THEN [At(c, "rebuild_btree", {}) EXCEPT
                                   !.todo = kept,
                                   !.count = Len(tables[t].rows) - Len(kept)]
                          ELSE Return(c, TRUE)]
    /\ UNCHANGED <<files, btrees, clock, shadow, last, catalog, pool, conn>>

\* Storage::update under tables.write()
UpdateSection(c) ==
    /\ Runs(c, "update")
    /\ \E t \in {calls[c].call.table} :
          IF ~tables[t].present
          THEN /\ calls' = [calls EXCEPT ![c] = Return(c, FALSE)]
               /\ UNCHANGED tables
          ELSE \E u \in {TableData_update(tables[t].rows, calls[c].call.updates,
                                          calls[c].call.pred)} :
                  /\ tables' = [tables EXCEPT ![t].rows = u.rows]
                  /\ calls' = [calls EXCEPT ![c] =
                          IF u.count > 0
                          THEN [At(c, "rebuild_btree", {}) EXCEPT
                                   !.todo = u.rows, !.count = u.count]
                          ELSE Return(c, TRUE)]
    /\ UNCHANGED <<files, btrees, clock, shadow, last, catalog, pool, conn>>

\* Storage::select under tables.read()
SelectSection(c) ==
    /\ Runs(c, "select")
    /\ calls' = [calls EXCEPT ![c] = Return(c, tables[calls[c].call.table].present)]
    /\ UNCHANGED <<store, last, catalog, pool, conn>>

\* drop_table under tables.write(): tables.remove(table_name); the guard is
\* kept to the end of the call
DropTables(c) ==
    /\ Runs(c, "drop")
    /\ tables' = [tables EXCEPT ![calls[c].call.table] = NoTable]
    /\ calls' = [calls EXCEPT ![c] = At(c, "drop_btrees", @.holds)]
    /\ UNCHANGED <<files, btrees, clock, shadow, last, catalog, pool, conn>>

\* the callers that hold a clone of the tree of t
Cloned(t) == {d \in Callers : /\ calls[d].pc \in {"insert_tree", "rebuild_tree"}
                              /\ calls[d].call.table = t}

\* drop_table under btrees.write() as well: btrees.remove(table_name),
\* remove_file(path), Ok(())
DropBtrees(c) ==
    /\ Runs(c, "drop_btrees")
    /\ \E t \in {calls[c].call.table} :
          /\ btrees' = [btrees EXCEPT ![t] = Closed]
          /\ files' = [files EXCEPT ![t] = RemoveFile(@)]
          /\ calls' = [d \in Callers |->
                  IF d = c THEN Return(c, TRUE)
                  ELSE IF d \in Cloned(t) /\ btrees[t].open
                  THEN [calls[d] EXCEPT !.detached = TRUE]
                  ELSE calls[d]]
    /\ UNCHANGED <<tables, clock, shadow, last, catalog, pool, conn>>

LocksNext ==
    \/ \E c \in Callers, call \in LockMenu : StartCall(c, call)
    \/ \E c \in Callers : Acquire(c)
    \/ \E c \in Callers : GocTables(c)
    \/ \E c \in Callers : GocBtree(c)
    \/ \E c \in Callers : PushRow(c)
    \/ \E c \in Callers : FetchBtree(c)
    \/ \E c \in Callers : InsertLocked(c)
    \/ \E c \in Callers : DeleteSection(c)
    \/ \E c \in Callers : UpdateSection(c)
    \/ \E c \in Callers : SelectSection(c)
    \/ \E c \in Callers : DropTables(c)
    \/ \E c \in Callers : DropBtrees(c)

SpecLocks == LocksInit /\ [][LocksNext]_vars

\* tree.insert runs once the caller holds the lock of the tree: weak fairness
\* of InsertLocked(c), whose steps are enabled exactly under its guard
InsertLockedFair(c) ==
    \/ []<>~(calls[c].pc \in {"insert_tree", "rebuild_tree"} /\ ~calls[c].waiting)
    \/ []<><<InsertLocked(c)>>_vars

\* the scheduler runs every thread that can take a step
SpecLocksFair ==
    /\ SpecLocks
    /\ \A c \in Callers :
          /\ WF_vars(Acquire(c))
          /\ WF_vars(GocTables(c) \/ GocBtree(c) \/ PushRow(c) \/ FetchBtree(c))
          /\ WF_vars(DeleteSection(c) \/ UpdateSection(c) \/ SelectSection(c))
          /\ WF_vars(DropTables(c) \/ DropBtrees(c))
          /\ InsertLockedFair(c)

-----------------------------------------------------------------------------
(* The executor over several databases: CREATE DATABASE and DROP DATABASE  *)
(* change the catalog alone, and no statement selects a database; the      *)
(* storage engine keeps its tables by table name                           *)

\* Executor::execute_create_database: CATALOG.create_database (which saves)
ExecCreateDatabase(name, if_not_exists) ==
    \E c \in {Catalog_create_database(catalog.data, name, if_not_exists)} :
       /\ catalog' = IF c.result = "save"
                     THEN [data |-> c.data, disk |-> Document(c.data)]
                     ELSE catalog
       /\ last' = [op |-> "create_database", name |-> name,
                   result |-> IF c.result \in {"save", "Ok"} THEN Success ELSE ExecError]
       /\ UNCHANGED <<store, calls, pool, conn>>

\* Executor::execute_drop_database: CATALOG.drop_database (which saves); the
\* storage engine is not called
ExecDropDatabase(name, if_exists) ==
    \E next \in KeysNext([catalog.data.databases EXCEPT ![name] = NoDatabase]) :
    \E c \in {Catalog_drop_database(catalog.data, name, if_exists, next)} :
       /\ catalog' = IF c.result = "save"
                     THEN [data |-> c.data, disk |-> Document(c.data)]
                     ELSE catalog
       /\ last' = [op |-> "drop_database", name |-> name,
                   result |-> IF c.result \in {"save", "Ok"} THEN Success ELSE ExecError,
                   held |-> {t \in TableNames : catalog.data.databases[name].tables[t] # NoSchema}]
       /\ UNCHANGED <<store, calls, pool, conn>>

\* SELECT * FROM table executed; after_create: the statement before it was a
\* CREATE TABLE of this table that returned Success and found no such table in
\* the catalog of the current database
SelectStar(table, build) ==
    /\ last' = [op |-> "select_star", table |-> table,
                after_create |-> /\ last.op = "create_table"
                                 /\ last.table = NameOf(table)
                                 /\ last.result = Success
                                 /\ last.created,
                result |-> execute_query(St, QueryText(<<"*">>, table, AllRows), build)]
    /\ UNCHANGED <<store, catalog, calls, pool, conn>>

SchemaNext ==
    \/ \E name \in DbNames, flag \in BOOLEAN : ExecCreateDatabase(name, flag)
    \/ \E name \in DbNames, flag \in BOOLEAN : ExecDropDatabase(name, flag)
    \/ \E flag \in BOOLEAN : ExecCreateTable("t1", "id", flag)
    \/ \E flag \in BOOLEAN : ExecDropTable("t1", flag)
    \/ ExecInsert("t1", NoColumns, <<<<1>>>>)
    \/ \E build \in Builds : SelectStar(<<"t", "1">>, build)

SpecSchema == ExecInit /\ [][SchemaNext]_vars

-----------------------------------------------------------------------------
(* Statements with a negated condition: WHERE NOT e.  parse_unary_expression *)
(* reads NOT below the comparison, and eval_condition has no arm for a       *)
(* UnaryOp                                                                   *)

\* the closure |row| match where_clause { Some(expr) => eval_condition(expr,
\* row), None => true } of execute_delete, over the rows of a table
WherePred(rows, where_clause, build) ==
    [kind |-> "where",
     hits |-> {rows[i] : i \in {j \in DOMAIN rows :
                                   \/ where_clause = NoneOf
                                   \/ eval_condition(where_clause[1], rows[j], build)}}]

\* Executor::execute_delete: the clock moves on by ticks[i] after the i-th
\* row that is inserted again
execute_delete(st, table, where_clause, build, ticks) ==
    IF NameOf(table) \notin Tables THEN [st EXCEPT !.ret = ExecError]
    ELSE With({Storage_delete(st, NameOf(table),
                              WherePred(st.tables[NameOf(table)].rows, where_clause, build),
                              ticks)},
              LAMBDA r : IF r.err THEN [r EXCEPT !.ret = ExecError]
                         ELSE [r EXCEPT !.ret = RowsAffected(r.ret)])

\* the conditions e
NotConditions == {<<"i", "d", " ", "=", " ", "1">>, <<"v", " ", "=", " ", "2">>}

\* NOT e as it is written: NOT (e) and NOT e
Negated(e, bracketed) ==
    IF bracketed THEN <<"N", "O", "T", " ", "(">> \o e \o <<")">> ELSE <<"N", "O", "T", " ">> \o e

SelectWhere(condition) == <<"S", "E", "L", "E", "C", "T", " ", "*", " ", "F", "R", "O", "M", " ", "t", "1", " ", "W", "H", "E", "R", "E", " ">> \o condition

\* the expression the parser makes of the condition e
ConditionOf(e) == SqlParser_parse(SelectWhere(e)).statements[1].where_clause

\* the rows on which the expression e, as eval_condition finds it, is as
\* `holds` says
RowsWhere(rows, e, build, holds) ==
    SelectSeq(rows, LAMBDA row : eval_condition(e, row, build) = holds)

\* execute_sql("SELECT * FROM t1 WHERE NOT e"); `expected` is what SELECT *
\* returns of a table that holds the rows of t1 on which e is false
SelectNot(e, bracketed, build) ==
    /\ tables["t1"].present
    /\ \E cond \in {ConditionOf(e)[1]} :
          last' = [op |-> "select_not", e |-> e, bracketed |-> bracketed,
                   result |-> execute_query(St, SelectWhere(Negated(e, bracketed)), build),
                   expected |-> execute_query(
                       [St EXCEPT !.tables["t1"].rows = RowsWhere(@, cond, build, FALSE)],
                       <<"S", "E", "L", "E", "C", "T", " ", "*", " ", "F", "R", "O", "M", " ", "t", "1">>, build),
                   some_true |-> RowsWhere(tables["t1"].rows, cond, build, TRUE) # <<>>]
    /\ UNCHANGED <<store, catalog, calls, pool, conn>>

\* execute_sql("DELETE FROM t1 WHERE NOT e"), with the rows on which e is true
\* before and after the statement
DeleteNot(e, bracketed, build) ==
    /\ tables["t1"].present
    /\ \E parsed \in {SqlParser_parse(<<"D", "E", "L", "E", "T", "E", " ", "F", "R", "O", "M", " ", "t", "1", " ", "W", "H", "E", "R", "E", " ">> \o Negated(e, bracketed))} :
       \E cond \in {ConditionOf(e)[1]} :
       \E ticks \in Ticks(Len(tables["t1"].rows)) :
       \E r \in {execute_delete(St, parsed.statements[1].table,
                                parsed.statements[1].where_clause, build, ticks)} :
          /\ parsed.ok
          /\ ExecStorage(r)
          /\ UNCHANGED catalog
          /\ last' = [op |-> "delete_not", e |-> e, bracketed |-> bracketed,
                      result |-> r.ret,
                      true_before |-> RowsWhere(tables["t1"].rows, cond, build, TRUE),
                      true_after |-> RowsWhere(r.tables["t1"].rows, cond, build, TRUE)]

NotNext ==
    \/ ExecCreateTable("t1", "id_v", TRUE)
    \/ QueryInsert
    \/ \E e \in NotConditions, bracketed \in BOOLEAN, build \in Builds :
          SelectNot(e, bracketed, build)
    \/ \E e \in NotConditions, bracketed \in BOOLEAN, build \in Builds :
          DeleteNot(e, bracketed, build)

SpecNot == ExecInit /\ [][NotNext]_vars

-----------------------------------------------------------------------------
(* execute_sql on texts of one or several statements: SqlParser::parse     *)
(* reads every statement of the text, Executor::execute runs one           *)

\* an outcome: the catalog data and the storage a statement leaves, the
\* ExecutionResult in storage.ret
Outcome(data, st) == [data |-> data, storage |-> st]

\* Executor::execute_drop_table on the catalog data and the storage
execute_drop_table(data, st, name, if_exists) ==
    IF NameOf(name) \notin Tables
    THEN Outcome(data, [st EXCEPT !.ret = IF if_exists THEN Success ELSE ExecError])
    ELSE With({Catalog_drop_table(data, NameOf(name), if_exists)}, LAMBDA c :
            IF c.result \in {"save", "Ok"}
            THEN Outcome(c.data, [Storage_drop_table(st, NameOf(name)) EXCEPT !.ret = Success])
            ELSE Outcome(data, [st EXCEPT !.ret = ExecError]))

\* the row literals of a parsed INSERT as the cells the storage keeps: the
\* literals of the model's texts are small integers
LiteralCells(values, build) ==
    [i \in DOMAIN values |->
        [j \in DOMAIN values[i] |-> eval_expression(values[i][j], <<>>, build).d]]

\* columns: Option<Vec<String>> of a parsed INSERT
ListedColumns(columns) ==
    IF columns = NoneOf THEN NoColumns
    ELSE Listed([i \in DOMAIN columns[1] |-> NameOf(columns[1][i])])

\* Executor::execute, for the statements the texts of the model hold
Executor_execute(data, st, stmt, build, ticks) ==
    CASE stmt.kind = "Select" ->
            Outcome(data, [st EXCEPT !.ret = Executor_select(st, stmt, build)])
      [] stmt.kind = "Insert" ->
            Outcome(data,
                    IF NameOf(stmt.table) \notin Tables THEN [st EXCEPT !.ret = ExecError]
                    ELSE execute_insert(data, st, NameOf(stmt.table),
                                        ListedColumns(stmt.columns),
                                        LiteralCells(stmt.values, build)))
      [] stmt.kind = "Delete" ->
            Outcome(data, execute_delete(st, stmt.table, stmt.where_clause, build, ticks))
      [] stmt.kind = "DropTable" ->
            execute_drop_table(data, st, stmt.name, stmt.if_exists)

\* a mistaken choice, which runs the last statement of the text
LastStatement(statements) == statements[Len(statements)]

\* let stmt = &statements[0]
FirstStatement(statements) == statements[1]

\* sql::execute_sql on the catalog data and the storage
sql_execute_sql(data, st, query, build, ticks) ==
    With({SqlParser_parse(query)}, LAMBDA parsed :
        IF ~parsed.ok THEN Outcome(data, [st EXCEPT !.ret = ErrorResult("SQL parse error")])
        ELSE IF parsed.statements = <<>>
        THEN Outcome(data, [st EXCEPT !.ret = ErrorResult("No SQL statements found")])
        ELSE Executor_execute(data, st, FirstStatement(parsed.statements), build, ticks))

\* the statements of the texts
ScriptStatements ==
    {<<"I", "N", "S", "E", "R", "T", " ", "I", "N", "T", "O", " ", "t", "1", " ", "(", "i", "d", ")", " ", "V", "A", "L", "U", "E", "S", " ", "(", "1", ")">>, <<"S", "E", "L", "E", "C", "T", " ", "*", " ", "F", "R", "O", "M", " ", "t", "1">>,
     <<"D", "E", "L", "E", "T", "E", " ", "F", "R", "O", "M", " ", "t", "1", " ", "W", "H", "E", "R", "E", " ", "i", "d", " ", "=", " ", "1">>, <<"D", "R", "O", "P", " ", "T", "A", "B", "L", "E", " ", "I", "F", " ", "E", "X", "I", "S", "T", "S", " ", "t", "1">>}

\* what may follow the first statement of a text
ScriptTails == {<<>>, <<";">>} \cup {<<";", " ">> \o s : s \in ScriptStatements}
                   \cup {<<";", " ">> \o s \o <<";">> : s \in {<<"D", "R", "O", "P", " ", "T", "A", "B", "L", "E", " ", "t", "1">>}}

\* what a statement leaves to later ones
Left(o) == [data |-> o.data, files |-> o.storage.files, tables |-> o.storage.tables]

\* a client sends the text first \o tail.  `first` is what the first
\* statement sent alone would have returned and left, `count` the number of
\* statements of the text
ExecuteSql(first, tail, build) ==
    \E ticks \in Ticks(Len(tables["t1"].rows)) :
    \E o \in {sql_execute_sql(catalog.data, St, first \o tail, build, ticks)} :
    \E alone \in {sql_execute_sql(catalog.data, St, first, build, ticks)} :
       /\ ExecStorage(o.storage)
       /\ catalog' = IF o.data = catalog.data THEN catalog
                     ELSE [data |-> o.data, disk |-> Document(o.data)]
       /\ last' = [op |-> "execute_sql", first |-> first, tail |-> tail,
                   count |-> Len(SqlParser_parse(first \o tail).statements),
                   result |-> o.storage.ret,
                   first_result |-> alone.storage.ret, first_left |-> Left(alone),
                   before |-> Left(Outcome(catalog.data, St))]

ScriptNext ==
    \/ ExecCreateTable("t1", "id_v", TRUE)
    \/ \E first \in ScriptStatements, tail \in ScriptTails, build \in Builds :
          ExecuteSql(first, tail, build)

SpecScript == ExecInit /\ [][ScriptNext]_vars

(* --- Clients that fill two tables and join them --- *)

\* how a join names its right-hand table, and how the statement then
\* addresses the columns of that table
JoinReferences ==
    {[reference |-> <<"t", "2">>, qualifier |-> <<"t", "2">>, aliased |-> FALSE],
     [reference |-> <<"t", "2", " ", "A", "S", " ", "a">>, qualifier |-> <<"a">>, aliased |-> TRUE],
     [reference |-> <<"t", "2", " ", "a">>, qualifier |-> <<"a">>, aliased |-> TRUE]}

JoinKeywords == {<<"J", "O", "I", "N">>, <<"I", "N", "N", "E", "R", " ", "J", "O", "I", "N">>}

\* what stands between SELECT and FROM in a join: every column, or the
\* column v of the right-hand table
JoinProjection(star, ref) == IF star THEN <<"*">> ELSE ref.qualifier \o <<".", "v">>

JoinText(star, keyword, ref) ==
    <<"S", "E", "L", "E", "C", "T", " ">> \o JoinProjection(star, ref) \o <<" ", "F", "R", "O", "M", " ", "t", "1", " ">> \o keyword \o <<" ">>
        \o ref.reference \o <<" ", "O", "N", " ", "t", "1", ".", "i", "d", " ", "=", " ">> \o ref.qualifier \o <<".", "i", "d">>

\* the pairs of a row of t1 and a row of t2 with the same id
SameId ==
    {p \in (DOMAIN tables["t1"].rows) \X (DOMAIN tables["t2"].rows) :
        tables["t1"].rows[p[1]]["id"] = tables["t2"].rows[p[2]]["id"]}

\* Statement::Insert executed with one row literal on either table
JoinInsert ==
    \E table \in Tables, values \in {<<<<1, 2>>>>, <<<<2, 1>>>>} :
       ExecInsert(table, Listed(<<"id", "v">>), values)

\* a client sends a SELECT that joins t1 with t2 and execute_sql answers
ExecuteJoin(star, keyword, ref, build) ==
    /\ last' = [op |-> "join", star |-> star, aliased |-> ref.aliased,
                present |-> tables["t1"].present /\ tables["t2"].present,
                same_id |-> Cardinality(SameId),
                result |-> execute_query(St, JoinText(star, keyword, ref), build)]
    /\ UNCHANGED <<store, catalog, calls, pool, conn>>

JoinNext ==
    \/ \E name \in Tables : ExecCreateTable(name, "id_v", TRUE)
    \/ JoinInsert
    \/ \E star \in BOOLEAN, keyword \in JoinKeywords, ref \in JoinReferences,
          build \in Builds : ExecuteJoin(star, keyword, ref, build)

SpecJoin == ExecInit /\ [][JoinNext]_vars

-----------------------------------------------------------------------------
(* What the tree API returns in the current state *)

CurPg == Pg(TREE_TABLE)

\* get(k): [some, value]
GetNow(k) == Tree_get(CurPg, k).ret

\* the (key, value) pairs scan hands to its callback, in order
ScanNow == Tree_scan(CurPg).ret

\* count()
CountNow == Tree_count(CurPg).ret

-----------------------------------------------------------------------------
(* Claims about the B+ tree *)

\* C1: after any sequence of inserts (root splits included) every key k stored
\* in a leaf is found by get(k), which returns the value last inserted for k.
C1_StoredKeysFound ==
    \A i \in 1..Len(ScanNow) :
        LET e == ScanNow[i]
        IN /\ GetNow(e.key).some
           /\ e.key \in DOMAIN shadow
           /\ GetNow(e.key).value = shadow[e.key]

\* C2: after any sequence of inserts scan visits keys in strictly ascending
\* order: no key twice, no key after a larger one.
C2_ScanStrictlyAscending ==
    \A i, j \in 1..Len(ScanNow) : i < j => ScanNow[i].key.ord < ScanNow[j].key.ord

\* C3: after any sequence of inserts count() is the number of distinct keys
\* inserted so far (an insert of a key already present leaves it unchanged).
C3_CountIsDistinctKeys ==
    CountNow = Cardinality(DOMAIN shadow)

\* C4: after inserts followed by sync(), dropping the tree and opening the file
\* again gives get(k) = v for every key inserted, and the count() of before.
C4_ReopenReturnsEveryKey ==
    (last.op = "reopen" /\ last.synced) =>
        /\ \A k \in DOMAIN shadow :
              GetNow(k).some /\ GetNow(k).value = shadow[k]
        /\ CountNow = last.count_before

\* C5: when a tree mutation (insert, delete) has returned Ok, no write to the
\* file is left unsynced.
C5_MutationReturnsSynced ==
    (last.op \in {"insert", "delete"} /\ last.ok) => ~files[TREE_TABLE].dirty

\* C6: when the process stops between two writes of an insert and the file is
\* opened again, every key that was inserted and synced before that insert
\* (and that get returned then) is still returned by get with its value.
C6_CrashKeepsSyncedKeys ==
    (last.op = "crash" /\ last.synced) =>
        \A k \in last.found_before \ {last.key} : k \in Found(CurPg)

-----------------------------------------------------------------------------
(* What the storage API returns in the current state *)

\* the rows load_all puts into table t when a new process starts now
RestartRows(t) == Storage_new(St).tables[t].rows

\* select(t, [], |_| true) fails
SelectFails(t) == Storage_select(St, t, {}, [kind |-> "all", col |-> "id", val |-> 0]).err

CountIn(rows, row) == Cardinality({i \in 1..Len(rows) : rows[i] = row})

\* the two vectors hold the same rows the same number of times
SameRows(a, b) ==
    /\ Len(a) = Len(b)
    /\ \A i \in 1..Len(a) : CountIn(a, a[i]) = CountIn(b, a[i])

\* the strictly increasing maps of 1..m into 1..n
Embeddings(m, n) == {f \in [1..m -> 1..n] : \A i, j \in 1..m : i < j => f[i] < f[j]}

Matching(rows, P) == {i \in 1..Len(rows) : EvalPred(P, rows[i])}

OthersUnchanged(t, others) ==
    \A u \in Tables \ {t} :
        /\ tables[u] = others[u].table
        /\ files[u] = others[u].file
        /\ btrees[u] = others[u].btree

\* C7: for every table in memory, the rows stored in its tree are the rows of
\* the in-memory vector, each as many times, so a restart now reproduces them
C7_TreeMirrorsMemory ==
    \A t \in Tables :
        tables[t].present => SameRows(RestartRows(t), tables[t].rows)

\* what delete(t, P) has to leave, from the rows before to the rows after
DeletePost(t, P, ret, before) ==
    LET after == tables[t].rows
    IN /\ tables[t].present
       /\ \E f \in Embeddings(Len(after), Len(before.rows)) :
            /\ \A i \in 1..Len(after) : after[i] = before.rows[f[i]]
            /\ \A j \in 1..Len(before.rows) :
                    EvalPred(P, before.rows[j]) <=> (\A i \in 1..Len(after) : f[i] # j)
       /\ ret = Cardinality(Matching(before.rows, P))
       /\ OthersUnchanged(t, before.others)

\* C8: a delete(t, P) that returns Ok removes exactly the rows on which P
\* holds, keeps the other rows in their order, returns the number of rows
\* removed and leaves every other table as it was
C8_DeleteRemovesMatching ==
    (last.op = "delete" /\ last.ok) =>
        DeletePost(last.table, last.pred, last.ret, last.before)

C8_Witness ==
    /\ last.op = "delete" /\ last.ok /\ last.ret >= 1
    /\ Len(tables[last.table].rows) >= 2
    /\ tables[last.table].rows[1] # tables[last.table].rows[2]
    /\ \E u \in Tables \ {last.table} : Len(tables[u].rows) >= 1

\* what update(t, updates, P) has to leave
UpdatePost(t, updates, P, ret, before) ==
    LET after == tables[t].rows
    IN /\ tables[t].present
       /\ Len(after) = Len(before.rows)
       /\ \A i \in 1..Len(before.rows) :
            IF EvalPred(P, before.rows[i])
            THEN /\ DOMAIN after[i] = (DOMAIN before.rows[i]) \cup (DOMAIN updates)
                 /\ \A c \in DOMAIN updates : after[i][c] = updates[c]
                 /\ \A c \in (DOMAIN before.rows[i]) \ (DOMAIN updates) :
                        after[i][c] = before.rows[i][c]
            ELSE after[i] = before.rows[i]
       /\ ret = Cardinality(Matching(before.rows, P))
       /\ OthersUnchanged(t, before.others)

\* C9: an update(t, updates, P) that returns Ok overlays updates on exactly
\* the rows on which P held before the call and returns their number; the
\* other rows, the other columns, the number of rows and the other tables
\* stay as they were
C9_UpdateOverlaysMatching ==
    (last.op = "update" /\ last.ok) =>
        UpdatePost(last.table, last.updates, last.pred, last.ret, last.before)

C9_Witness ==
    /\ last.op = "update" /\ last.ok
    /\ last.ret >= 1 /\ last.ret < Len(tables[last.table].rows)
    /\ \E i \in 1..Len(tables[last.table].rows) :
            /\ EvalPred(last.pred, last.before.rows[i])
            /\ tables[last.table].rows[i] # last.before.rows[i]
            /\ DOMAIN last.before.rows[i] # DOMAIN last.updates
    /\ \E u \in Tables \ {last.table} : Len(tables[u].rows) >= 1

\* the state drop_table(t) leaves: no table, no registered tree, no file
Dropped(t) == ~tables[t].present /\ ~btrees[t].open /\ ~files[t].exists

\* C10: after drop_table(t) select on t fails, no tree is registered for t
\* and the file of t is gone; an insert into t in that state leaves a table
\* of that one row, in memory and in the tree
C10_DropTableRemovesAll ==
    /\ last.op = "drop_table" =>
            (last.ok /\ Dropped(last.table) /\ SelectFails(last.table))
    /\ (last.op = "insert" /\ last.on_dropped) =>
            /\ last.ok
            /\ tables[last.table] = [present |-> TRUE, rows |-> <<last.row>>]
            /\ RestartRows(last.table) = <<last.row>>

C10_Witness == last.op = "insert" /\ last.ok /\ last.after_drop /\ last.on_dropped

\* C11: every insert that returns Ok has stored its row under a key the
\* tree of the table did not hold before, whatever the clock showed
C11_RowKeysFresh == (last.op = "insert" /\ last.ok) => last.fresh


\* C12: when the concurrent calls on one table have all returned, some order
\* of them that respects which call returned before which started explains
\* every result and the rows the table holds
C12_CallsLinearizable == AllReturned => \E o \in CallOrders : Explains(o)


\* the name of a create was there before the call, the name of a drop was not
NameWasThere ==
    IF last.op \in {"create_database", "drop_database"}
    THEN last.pre.databases[last.name] # NoDatabase
    ELSE /\ last.pre.current_database # None
         /\ last.pre.databases[last.pre.current_database].tables[last.name] # NoSchema

\* C13: a create of a name that exists and a drop of a name that does not
\* return their error, or Ok when the flag is set, and leave the catalog as
\* it was; a drop_table with no database selected returns that error instead
C13_ExistenceErrorsChangeNothing ==
    /\ (/\ last.op \in {"create_database", "create_table"}
        /\ NameWasThere) =>
           /\ last.result = IF last.flag THEN "Ok" ELSE "already exists"
           /\ catalog.data = last.pre
    /\ (/\ last.op \in {"drop_database", "drop_table"}
        /\ ~NameWasThere) =>
           /\ last.result = IF last.op = "drop_table" /\ last.pre.current_database = None
                            THEN "No database selected"
                            ELSE IF last.flag THEN "Ok" ELSE "does not exist"
           /\ catalog.data = last.pre

\* a create_table of a table that exists, with other columns, has returned
C13_Witness ==
    /\ last.op = "create_table" /\ NameWasThere
    /\ last.result \in {"Ok", "already exists"}
    /\ \E d \in DbNames :
          /\ \E t \in TableNames : catalog.data.databases[d].tables[t] = "id_v"

\* C13 as it is stated: every drop of a name that does not exist returns an
\* error, or Ok when if_exists is set
C13_AsStated ==
    /\ (/\ last.op \in {"create_database", "create_table"}
        /\ NameWasThere) =>
           /\ last.result = IF last.flag THEN "Ok" ELSE "already exists"
           /\ catalog.data = last.pre
    /\ (/\ last.op \in {"drop_database", "drop_table"}
        /\ ~NameWasThere) =>
           /\ IF last.flag THEN last.result = "Ok" ELSE last.result \notin {"Ok", "save"}
           /\ catalog.data = last.pre

\* no catalog call is under way
CatalogQuiet == \A c \in Callers : calls[c] = "idle"

\* C14: when a create or drop has returned Ok and no call is under way, the
\* document on disk is the catalog in memory
C14_DiskEqualsMemory == (last.oks /\ CatalogQuiet) => catalog.disk = Document(catalog.data)

\* the current database is None or a database of the catalog
CurrentIsPresent ==
    \/ catalog.data.current_database = None
    \/ catalog.data.databases[catalog.data.current_database].present

\* C15: the current database is None or a database of the catalog; a
\* drop_database of the current database leaves a remaining database
\* current, or None when none remains, and a drop of another database leaves
\* the current database as it was
C15_CurrentDatabaseValid ==
    /\ CurrentIsPresent
    /\ (last.op = "drop_database" /\ last.result = "save") =>
          IF last.pre.current_database = last.name
          THEN IF \E d \in DbNames : catalog.data.databases[d].present
               THEN /\ catalog.data.current_database # None
                    /\ catalog.data.databases[catalog.data.current_database].present
               ELSE catalog.data.current_database = None
          ELSE catalog.data.current_database = last.pre.current_database

\* the current database has been dropped while another database remained
C15_Witness ==
    /\ last.op = "drop_database" /\ last.result = "save"
    /\ last.pre.current_database = last.name
    /\ catalog.data.current_database \in DbNames \ {last.name}

\* the permits the semaphore has handed to acquire calls still to return
InHandover == Cardinality(pool.assigned)

\* C16: there are never more live guards than max_connections, available()
\* is max_connections less the live guards and the permits in handover to a
\* waiting acquire, and a dropped guard returns exactly one permit
C16_PermitsConserved ==
    /\ Cardinality(LiveGuards) <= pool.max_connections
    /\ available(pool) = pool.max_connections - Cardinality(LiveGuards) - InHandover
    /\ last.op = "drop" => available(pool) + InHandover = last.free + 1

\* a guard has been dropped while another acquire waited
C16_Witness == last.op = "drop" /\ InHandover > 0 /\ LiveGuards # {}

\* C16 as it is stated: available() is max_connections less the live guards
C16_AsStated ==
    /\ Cardinality(LiveGuards) <= pool.max_connections
    /\ available(pool) = pool.max_connections - Cardinality(LiveGuards)
    /\ last.op = "drop" => available(pool) + InHandover = last.free + 1

\* what holds after every step of an acquire
AcquireOutcomes ==
    /\ (last.op = "acquire" /\ last.free > 0) => calls[last.client] = "guard"
    /\ last.op = "acquired" => calls[last.client] = "guard"
    /\ last.op = "timeout" => last.free = 0
    /\ \A c \in Clients :
          calls[c] = "timeout" =>
             /\ c \notin pool.assigned
             /\ \A i \in 1..Len(pool.waiters) : pool.waiters[i] # c
    /\ available(pool) + Cardinality(LiveGuards) + InHandover = pool.max_connections

\* C17: an acquire returns the guard when a permit is free or is given to it
\* while it waits, and returns the timeout error otherwise; a caller that has
\* timed out holds no permit and is given none, and every permit stays with
\* the pool, a guard or a waiting acquire
C17_AcquireReturnsGuardOrTimeout ==
    /\ []AcquireOutcomes
    /\ \A c \in Clients : (calls[c] = "waiting") ~> (calls[c] \in {"guard", "timeout"})

\* an acquire has timed out and an acquire that waited has then been given
\* the permit
C17_Witness ==
    /\ last.op = "acquired"
    /\ \E c \in Clients : calls[c] = "timeout"

\* C18: the servers serve at most max_connections connections at a time
C18_TasksBoundedByPool == Cardinality(conn) <= pool.max_connections

\* the responses the handler has yet to write: one after a read, else none
Unanswered == Len(conn.served) - Len(conn.out)

\* C19: every frame read is answered by one frame, the answers are written
\* in the order of the frames, and no frame is read or executed before the
\* answer to the frame before it has been written
C19_OneResponsePerRequestInOrder ==
    /\ \A i \in 1..Len(conn.out) : conn.out[i].for = i
    /\ \A i \in 1..Len(conn.served) : conn.served[i].written = i - 1
    /\ Unanswered = IF conn.pc = "write" \/ (last.op = "break" /\ last.at = "write")
                    THEN 1 ELSE 0

\* three frames have been read and answered
C19_Witness == Len(conn.out) = MaxFrames /\ conn.pc = "read"

\* the answer the protocol gives a frame
Answers(request, response) ==
    IF request.type = 4 THEN response.type = 5 /\ response.payload = ""
    ELSE IF request.type = 1
         THEN /\ response.type = 2
              /\ response.payload = to_json(execute_sql(request.payload))
    ELSE response.type = 3 /\ response.payload = "Unknown command"

\* the SQL of the Query frames among the first n frames read
RECURSIVE Queries(_)
Queries(n) ==
    IF n = 0 THEN <<>>
    ELSE Queries(n - 1) \o
            (IF conn.served[n].frame.type = 1 THEN <<conn.served[n].frame.payload>> ELSE <<>>)

\* C20: a Ping is answered by an empty Pong, a Query by a Result with the
\* JSON of its ExecutionResult, any other frame by the Error "Unknown
\* command"; only the Query frames are executed
C20_ResponseByType ==
    /\ \A i \in 1..Len(conn.out) : Answers(conn.served[i].frame, conn.out[i].frame)
    /\ conn.executed = Queries(Len(conn.served))

\* a Ping, a Query that does not parse and a frame of an unknown type have
\* been answered
C20_Witness ==
    /\ Len(conn.out) = MaxFrames
    /\ \E i, j, k \in 1..Len(conn.out) :
          /\ conn.served[i].frame.type = 4
          /\ conn.served[j].frame = Frame(1, "SELEC")
          /\ conn.served[k].frame.type = 255

\* the i-th byte of the little-endian form of n
ByteOf(n, i) == IF i = 1 THEN n.lo % 256
                ELSE IF i = 2 THEN n.lo \div 256
                ELSE IF i = 3 THEN n.hi % 256
                ELSE n.hi \div 256

\* C21: to_bytes gives the payload length in four bytes, least significant
\* first, the type byte and the payload, and the reader gives back a message
\* of the same type and payload
C21_FrameRoundTrip ==
    /\ conn.pc \in {"written", "read"} =>
          /\ Len(conn.bytes.head) = 5
          /\ \A i \in 1..4 : conn.bytes.head[i] = ByteOf(conn.msg.payload.len, i)
          /\ conn.bytes.head[5] =
                (CHOOSE b \in 1..5 :
                    <<"Query", "Result", "Error", "Ping", "Pong">>[b] = conn.msg.msg_type)
          /\ conn.bytes.body = conn.msg.payload
    /\ conn.pc = "read" =>
          /\ conn.back.ok
          /\ conn.back.msg_type = conn.msg.msg_type
          /\ conn.back.payload = conn.msg.payload

\* a Pong with a payload of 256 bytes has been written and read back
C21_Witness ==
    /\ conn.pc = "read"
    /\ conn.msg.msg_type = "Pong"
    /\ conn.msg.payload.len = U32(0, 256)
    /\ conn.back.ok

\* C22: a connection is given to the HTTP handler when its first bytes are
\* GET, POST, PUT, HEAD, DELE or OPTI and to the binary handler otherwise,
\* and the client of the ping frame is answered by the pong frame
C22_ProtocolByFirstBytes ==
    /\ conn.pc \in {"http", "binary"} =>
          (conn.pc = "http" <=> SubSeq(conn.data, 1, 4) \in HttpPrefixes)
    /\ (conn.data = PingFrame /\ conn.reply # <<>>) =>
          conn.reply[1].type = 5 /\ conn.reply[1].payload = ""

-----------------------------------------------------------------------------
\* the target columns of the INSERT last executed: the listed columns, or the
\* columns of the schema when no list is given
TargetColumns ==
    IF last.columns.listed THEN last.columns.names
    ELSE SchemaColumns(Catalog_get_table(catalog.data, last.table).schema)

InCatalog(table) == Catalog_get_table(catalog.data, table).ok

\* C23: an INSERT with a row literal whose number of values differs from the
\* number of target columns (the listed columns, or the columns of the schema
\* when none are listed) returns an Error; an INSERT into a table missing
\* from the catalog returns an Error and inserts nothing
C23_InsertErrors ==
    last.op = "insert" =>
       /\ (InCatalog(last.table)
             /\ \E i \in 1..Len(last.values) : Len(last.values[i]) # Len(TargetColumns))
          => last.result.variant = "Error"
       /\ ~InCatalog(last.table)
          => /\ last.result.variant = "Error"
             /\ tables = last.pre.tables
             /\ files = last.pre.files
             /\ btrees = last.pre.btrees

\* an INSERT into a table of the catalog whose second row literal is too
\* short has returned an Error, after its first row literal was inserted
C23_Witness ==
    /\ last.op = "insert"
    /\ InCatalog(last.table)
    /\ Len(last.values) = 2
    /\ Len(last.values[1]) = Len(TargetColumns)
    /\ Len(last.values[2]) < Len(TargetColumns)
    /\ last.result.variant = "Error"
    /\ Len(tables[last.table].rows) = Len(last.pre.tables[last.table].rows) + 1

-----------------------------------------------------------------------------
\* one operand of the last evaluation is an Integer and the other a Float
MixedOperands ==
    \/ last.left.kind = "Integer" /\ last.right.kind = "Float"
    \/ last.left.kind = "Float" /\ last.right.kind = "Integer"

ZeroDivisor == last.op = "Divide" /\ last.right.kind \in {"Integer", "Float"}
                  /\ last.right.k = 0 /\ last.right.d = 0

\* C25: each of +, -, * and / on one Integer and one Float operand, in either
\* order, returns a Float; a division by zero returns Null
C25_MixedArithmeticIsFloat ==
    (last.op \in ArithmeticOps /\ last.left.kind \in {"Integer", "Float"}
        /\ last.right.kind \in {"Integer", "Float"})
    => /\ ZeroDivisor => last.result = Returns(Null)
       /\ (MixedOperands /\ ~ZeroDivisor)
            => (last.result.outcome = "value" /\ last.result.value.kind = "Float")

\* C26: no evaluation of +, -, *, / or ABS on 64-bit Integer operands panics:
\* each returns a Value, also when the exact result lies outside the i64
\* range and for i64::MIN / -1
C26_IntegerArithmeticNeverPanics ==
    (last.op \in ArithmeticOps \cup {"ABS"} /\ last.left.kind = "Integer"
        /\ (last.op = "ABS" \/ last.right.kind = "Integer"))
    => last.result.outcome = "value"

-----------------------------------------------------------------------------
\* C28: opening an existing data file whose header does not carry the magic
\* bytes "BFLY" fails (InvalidFormat): no pager or tree is returned and the
\* file is not written
C28_ForeignFileRejected ==
    (last.op = "open" /\ last.before.exists /\ last.before.hdr.magic # "BFLY")
    => /\ ~last.ok
       /\ ~btrees[TREE_TABLE].open
       /\ files[TREE_TABLE] = last.before

-----------------------------------------------------------------------------
\* the keys of the entries a scan yielded
ScannedKeys(entries) == {entries[i].key : i \in 1..Len(entries)}

\* C29: delete(k) returns true exactly when k was in the tree; afterwards
\* get(k) returns none, scan no longer yields k, count() is one less than
\* before and every other key still maps to its value; a delete of an absent
\* key returns false and changes no key or value
C29_DeleteRemovesKey ==
    (last.op = "delete" /\ last.ok) =>
        LET was_there == last.key \in ScannedKeys(last.scan_before)
        IN /\ last.ret = was_there
           /\ ~GetNow(last.key).some
           /\ last.key \notin ScannedKeys(ScanNow)
           /\ was_there => CountNow = last.count_before - 1
           /\ ~was_there => ScanNow = last.scan_before
           /\ \A i \in 1..Len(last.scan_before) :
                 last.scan_before[i].key # last.key
                    => \E j \in 1..Len(ScanNow) : ScanNow[j] = last.scan_before[i]

-----------------------------------------------------------------------------
\* the nodes reachable from page_id through child pointers
RECURSIVE NodesFrom(_, _)
NodesFrom(pg, page_id) ==
    LET r == read_page(pg, page_id)
        n == to_node(r.ret)
    IN IF r.err \/ ~n.some THEN {}
       ELSE IF is_leaf(n.node) THEN {n.node}
       ELSE {n.node}
            \cup UNION {NodesFrom(pg, n.node.entries[i].child_page) :
                           i \in 1..Len(n.node.entries)}
            \cup NodesFrom(pg, n.node.right_child)

\* C30: after any sequence of inserts every node reachable from the root
\* holds at most BTREE_ORDER - 1 entries (a full root and a full child are
\* split before the insert descends into them)
C30_NodesWithinOrder ==
    \A node \in NodesFrom(CurPg, root_page(CurPg)) :
        Len(node.entries) <= BTREE_ORDER - 1


(* C27: for every SELECT, INSERT, UPDATE or DELETE statement the parser
   produced, parsing the text print_statement gives for it yields exactly
   one statement, equal to the statement printed. *)
C27_PrintParseRoundTrip ==
    last.op = "reparsed" =>
        /\ last.result.ok
        /\ Len(last.result.statements) = 1
        /\ last.result.statements[1] = last.stmt

\* the rows of the table a query names that its predicate holds on
Passing == SelectSeq(tables[NameOf(last.table)].rows,
                     LAMBDA row : EvalPred(last.condition, row))

\* the answer to a query for one count: one column, one row, the number n
CountResult(column, n) ==
    RowsResult(<<column>>, <<[c \in {column} |-> JsonInteger(0, n)]>>)

(* C24: execute_sql on SELECT COUNT( * ) FROM t, with or without a WHERE clause
   and t a table of the storage, answers Rows with the one column "count( * )" (written without the spaces)
   and one row whose value is the number of rows of t the WHERE clause holds
   on; on COUNT(expr) the value is the number of those rows on which expr is
   not null. *)
C24_CountStarCountsRows ==
    /\ last.op = "execute_sql"
    /\ NameOf(last.table) \in Tables
    /\ tables[NameOf(last.table)].present
    => /\ last.projection \in {<<"C", "O", "U", "N", "T", "(", "*", ")">>, <<"c", "o", "u", "n", "t", "(", "*", ")">>} =>
             last.result = CountResult(<<"c", "o", "u", "n", "t", "(", "*", ")">>, Len(Passing))
       /\ last.projection = <<"C", "O", "U", "N", "T", "(", "v", ")">> =>
             last.result = CountResult(<<"c", "o", "u", "n", "t", "(", "v", ")">>,
                 Len(SelectSeq(Passing, LAMBDA row : "v" \in DOMAIN row)))

\* the places of a log at which sync was called
SyncsOf(log) == {i \in DOMAIN log : "sync_all" \in DOMAIN log[i]}

(* C31: a batch_insert that returns Ok returns the number of its entries; its
   writes are those of insert on the same entries one by one, in the same
   order, followed by the writes of one sync, which is the only sync of the
   call and its last step; the key to value mapping of the tree is then the
   one the inserts one by one produce. *)
C31_BatchInsertIsInsertsThenOneSync ==
    last.op = "batch_insert" /\ last.ok =>
        /\ last.ret = Len(last.entries)
        /\ SyncsOf(last.log) = {Len(last.log)}
        /\ last.each_ok
        /\ SubSeq(last.log, 1, Len(last.log) - 2) = last.each_log
        /\ last.mapping = last.each_mapping

\* a batch of two entries has been applied to a full root, which was split
C31_Witness ==
    /\ last.op = "batch_insert"
    /\ last.ok
    /\ Len(last.entries) = MaxBatch
    /\ last.entries[1].key # last.entries[2].key
    /\ \E i \in DOMAIN last.log : last.log[i].page_id > 1

(* C32: in every state of the pager the cache holds at most MAX_CACHE_PAGES
   pages and each cached page holds the bytes last written to its page of the
   file, and a read_page of a page written before returns the bytes last
   written to it, also when the page had left the cache. *)
C32_CacheIsTheFile ==
    /\ Len(btrees[TREE_TABLE].cache) <= MAX_CACHE_PAGES
    /\ \A i \in DOMAIN btrees[TREE_TABLE].cache :
          /\ btrees[TREE_TABLE].cache[i].page_id \in DOMAIN shadow
          /\ btrees[TREE_TABLE].cache[i].page_id \in DOMAIN files[TREE_TABLE].pages
          /\ btrees[TREE_TABLE].cache[i].data
                = files[TREE_TABLE].pages[btrees[TREE_TABLE].cache[i].page_id]
          /\ btrees[TREE_TABLE].cache[i].data = shadow[btrees[TREE_TABLE].cache[i].page_id]
    /\ last.op = "read_page" /\ last.id \in DOMAIN shadow =>
          last.ok /\ last.data = shadow[last.id]

\* a page that holds a node and that a full cache had evicted has been read
C32_Witness ==
    /\ last.op = "read_page"
    /\ last.ok
    /\ ~last.cached_before
    /\ last.full_before
    /\ last.data.len > 0
    /\ last.data = shadow[last.id]

-----------------------------------------------------------------------------
(* C33: when storage.insert returns an error because the row could not be  *)
(* persisted to the B+ tree, the call leaves the in-memory state as it     *)
(* was: a following select on the table returns the rows it returned       *)
(* before the call                                                         *)
C33_FailedInsertLeavesRows ==
    (last.op = "insert" /\ ~last.ok /\ last.present_before)
        => last.select_after = last.select_before

-----------------------------------------------------------------------------
(* C34: no interleaving of concurrent storage calls (get_or_create_table,  *)
(* insert, select, update, delete, drop_table) deadlocks.  The table-map   *)
(* lock, the tree-map lock and the per-tree lock are taken in an order     *)
(* that admits no cycle, and every call that has started returns at last   *)
C34_EveryCallReturns ==
    \A c \in Callers :
        (calls[c].pc \notin {"idle", "returned"}) ~> (calls[c].pc = "returned")

\* a caller holds the table map and waits for the tree map, which the other
\* caller holds
C34_Witness ==
    \E c, d \in Callers :
        /\ c # d
        /\ calls[c].waiting /\ calls[c].holds = {[lock |-> "tables", mode |-> "w"]}
        /\ Wants(calls[c].call, calls[c].pc).lock = "btrees"
        /\ [lock |-> "btrees", mode |-> "w"] \in calls[d].holds

-----------------------------------------------------------------------------
(* C35: when drop_table(t) runs concurrently with an insert into t, then   *)
(* once both calls have returned the in-memory table map and the data      *)
(* directory agree about t: t is in both and holds the inserted row, or t  *)
(* is in neither (no t.db is left for a table that memory does not hold)   *)
C35_DropAndInsertAgree ==
    \A c, d \in Callers :
        (/\ calls[c].pc = "returned" /\ calls[d].pc = "returned"
         /\ calls[c].call.op = "insert" /\ calls[d].call.op = "drop_table"
         /\ calls[c].call.table = calls[d].call.table)
        => \E t \in {calls[c].call.table} :
              \/ /\ tables[t].present
                 /\ files[t].exists
                 /\ \E i \in 1..Len(tables[t].rows) : tables[t].rows[i] = calls[c].call.row
              \/ ~tables[t].present /\ ~files[t].exists

-----------------------------------------------------------------------------
(* C36: an INSERT statement that returns an Error result leaves the target *)
(* table unchanged: when an INSERT of several rows fails on a later row,   *)
(* none of the rows of the statement has been inserted                     *)
C36_FailedInsertInsertsNothing ==
    (last.op = "insert" /\ last.result.variant = "Error")
        => /\ tables[last.table] = last.pre.tables[last.table]
           /\ files[last.table] = last.pre.files[last.table]

-----------------------------------------------------------------------------
(* C37: right after a CREATE TABLE t that returned Success, t not having   *)
(* been in the catalog of the current database, SELECT * FROM t returns no *)
(* rows, whatever statements were executed before (a DROP DATABASE of a    *)
(* database that held a table t, tables of the name in other databases)    *)
C37_NewTableIsEmpty ==
    (last.op = "select_star" /\ last.after_create)
        => last.result.variant = "Rows" /\ last.result.rows = <<>>

-----------------------------------------------------------------------------
(* C38: a WHERE clause NOT e selects exactly the rows on which e is false, *)
(* and DELETE ... WHERE NOT e removes no row on which e is true            *)
C38_NotNegates ==
    /\ last.op = "select_not" => last.result = last.expected
    /\ last.op = "delete_not" => last.true_after = last.true_before

-----------------------------------------------------------------------------
(* C39: execute_sql executes only the first statement of its input: when   *)
(* the input holds several statements separated by semicolons, the result  *)
(* is that of the first statement, and the later statements change neither *)
(* the catalog nor any table                                               *)
C39_OnlyTheFirstStatementRuns ==
    (last.op = "execute_sql" /\ last.count > 1)
        => /\ last.result = last.first_result
           /\ Left(Outcome(catalog.data, St)) = last.first_left

\* a SELECT that returned a row, followed by a DROP TABLE that has dropped
\* nothing
C39_Witness ==
    /\ last.op = "execute_sql" /\ last.count > 1
    /\ last.first = <<"S", "E", "L", "E", "C", "T", " ", "*", " ", "F", "R", "O", "M", " ", "t", "1">>
    /\ last.tail = <<";", " ", "D", "R", "O", "P", " ", "T", "A", "B", "L", "E", " ", "t", "1", ";">>
    /\ last.result.variant = "Rows" /\ last.result.rows # <<>>
    /\ tables["t1"].present /\ tables["t1"].rows # <<>>

(* C40: a join whose right-hand table is written with an alias (JOIN t2 AS a, *)
(* JOIN t2 a) joins the rows of the table t2: when t1 and t2 exist, the       *)
(* statement returns one row for each pair of a row of t1 and a row of t2     *)
(* that the ON condition t1.id = a.id holds on                                *)
C40_AliasJoinsTheNamedTable ==
    (last.op = "join" /\ last.aliased /\ last.present) =>
        /\ last.result.variant = "Rows"
        /\ Len(last.result.rows) = last.same_id
====
